---- MODULE Spec2Model ----
(***************************************************************************)
(* Model of the base64 decoder of rustls-pemfile (src/src/base64.rs):      *)
(* the two alphabet tables, the incremental Decoder (update / finish),     *)
(* the Quad accumulator, and the one-shot entry points decode and          *)
(* decode_into_vec.                                                        *)
(***************************************************************************)
EXTENDS Integers, Sequences, FiniteSets, TLC

(* Code(128): value should not appear in input. *)
INVALID == 128

(* Code(129): value is allowed to appear in input, and is skipped over. *)
SKIP == 129

(* Code(130): value means padding. *)
PAD == 130

(* The table returned by <Standard as Alphabet>::decode_table, entry b+1 is
   the code of byte b. *)
StandardCodes == <<
    INVALID, INVALID, INVALID, INVALID, INVALID, INVALID, INVALID, INVALID, INVALID, INVALID, INVALID, INVALID, INVALID, INVALID, INVALID, INVALID,
    INVALID, INVALID, INVALID, INVALID, INVALID, INVALID, INVALID, INVALID, INVALID, INVALID, INVALID, INVALID, INVALID, INVALID, INVALID, INVALID,
    INVALID, INVALID, INVALID, INVALID, INVALID, INVALID, INVALID, INVALID, INVALID, INVALID, INVALID, 62, INVALID, INVALID, INVALID, 63,
    52, 53, 54, 55, 56, 57, 58, 59, 60, 61, INVALID, INVALID, INVALID, PAD, INVALID, INVALID,
    INVALID, 0, 1, 2, 3, 4, 5, 6, 7, 8, 9, 10, 11, 12, 13, 14,
    15, 16, 17, 18, 19, 20, 21, 22, 23, 24, 25, INVALID, INVALID, INVALID, INVALID, INVALID,
    INVALID, 26, 27, 28, 29, 30, 31, 32, 33, 34, 35, 36, 37, 38, 39, 40,
    41, 42, 43, 44, 45, 46, 47, 48, 49, 50, 51, INVALID, INVALID, INVALID, INVALID, INVALID,
    INVALID, INVALID, INVALID, INVALID, INVALID, INVALID, INVALID, INVALID, INVALID, INVALID, INVALID, INVALID, INVALID, INVALID, INVALID, INVALID,
    INVALID, INVALID, INVALID, INVALID, INVALID, INVALID, INVALID, INVALID, INVALID, INVALID, INVALID, INVALID, INVALID, INVALID, INVALID, INVALID,
    INVALID, INVALID, INVALID, INVALID, INVALID, INVALID, INVALID, INVALID, INVALID, INVALID, INVALID, INVALID, INVALID, INVALID, INVALID, INVALID,
    INVALID, INVALID, INVALID, INVALID, INVALID, INVALID, INVALID, INVALID, INVALID, INVALID, INVALID, INVALID, INVALID, INVALID, INVALID, INVALID,
    INVALID, INVALID, INVALID, INVALID, INVALID, INVALID, INVALID, INVALID, INVALID, INVALID, INVALID, INVALID, INVALID, INVALID, INVALID, INVALID,
    INVALID, INVALID, INVALID, INVALID, INVALID, INVALID, INVALID, INVALID, INVALID, INVALID, INVALID, INVALID, INVALID, INVALID, INVALID, INVALID,
    INVALID, INVALID, INVALID, INVALID, INVALID, INVALID, INVALID, INVALID, INVALID, INVALID, INVALID, INVALID, INVALID, INVALID, INVALID, INVALID,
    INVALID, INVALID, INVALID, INVALID, INVALID, INVALID, INVALID, INVALID, INVALID, INVALID, INVALID, INVALID, INVALID, INVALID, INVALID, INVALID
>>

(* The table returned by <Pem as Alphabet>::decode_table. *)
PemCodes == <<
    INVALID, INVALID, INVALID, INVALID, INVALID, INVALID, INVALID, INVALID, INVALID, SKIP, SKIP, SKIP, SKIP, SKIP, INVALID, INVALID,
    INVALID, INVALID, INVALID, INVALID, INVALID, INVALID, INVALID, INVALID, INVALID, INVALID, INVALID, INVALID, INVALID, INVALID, INVALID, INVALID,
    SKIP, INVALID, INVALID, INVALID, INVALID, INVALID, INVALID, INVALID, INVALID, INVALID, INVALID, 62, INVALID, INVALID, INVALID, 63,
    52, 53, 54, 55, 56, 57, 58, 59, 60, 61, INVALID, INVALID, INVALID, PAD, INVALID, INVALID,
    INVALID, 0, 1, 2, 3, 4, 5, 6, 7, 8, 9, 10, 11, 12, 13, 14,
    15, 16, 17, 18, 19, 20, 21, 22, 23, 24, 25, INVALID, INVALID, INVALID, INVALID, INVALID,
    INVALID, 26, 27, 28, 29, 30, 31, 32, 33, 34, 35, 36, 37, 38, 39, 40,
    41, 42, 43, 44, 45, 46, 47, 48, 49, 50, 51, INVALID, INVALID, INVALID, INVALID, INVALID,
    INVALID, INVALID, INVALID, INVALID, INVALID, INVALID, INVALID, INVALID, INVALID, INVALID, INVALID, INVALID, INVALID, INVALID, INVALID, INVALID,
    INVALID, INVALID, INVALID, INVALID, INVALID, INVALID, INVALID, INVALID, INVALID, INVALID, INVALID, INVALID, INVALID, INVALID, INVALID, INVALID,
    INVALID, INVALID, INVALID, INVALID, INVALID, INVALID, INVALID, INVALID, INVALID, INVALID, INVALID, INVALID, INVALID, INVALID, INVALID, INVALID,
    INVALID, INVALID, INVALID, INVALID, INVALID, INVALID, INVALID, INVALID, INVALID, INVALID, INVALID, INVALID, INVALID, INVALID, INVALID, INVALID,
    INVALID, INVALID, INVALID, INVALID, INVALID, INVALID, INVALID, INVALID, INVALID, INVALID, INVALID, INVALID, INVALID, INVALID, INVALID, INVALID,
    INVALID, INVALID, INVALID, INVALID, INVALID, INVALID, INVALID, INVALID, INVALID, INVALID, INVALID, INVALID, INVALID, INVALID, INVALID, INVALID,
    INVALID, INVALID, INVALID, INVALID, INVALID, INVALID, INVALID, INVALID, INVALID, INVALID, INVALID, INVALID, INVALID, INVALID, INVALID, INVALID,
    INVALID, INVALID, INVALID, INVALID, INVALID, INVALID, INVALID, INVALID, INVALID, INVALID, INVALID, INVALID, INVALID, INVALID, INVALID, INVALID
>>

(* mutant of decode_table: Pem returns the strict table *)
decode_table_strict_only(a) == StandardCodes

(* impl Alphabet for Standard / Pem: decode_table *)
decode_table(a) == IF a = "Standard" THEN StandardCodes ELSE PemCodes

(* u8 bit operations used by Quad::convert *)
RECURSIVE BitOr(_, _)
BitOr(x, y) ==
    IF x = 0 THEN y
    ELSE IF y = 0 THEN x
    ELSE (IF x % 2 = 1 \/ y % 2 = 1 THEN 1 ELSE 0) + 2 * BitOr(x \div 2, y \div 2)

RECURSIVE BitAnd(_, _)
BitAnd(x, y) ==
    IF x = 0 \/ y = 0 THEN 0
    ELSE (IF x % 2 = 1 /\ y % 2 = 1 THEN 1 ELSE 0) + 2 * BitAnd(x \div 2, y \div 2)

Shl(x, n) == (x * (2 ^ n)) % 256

Shr(x, n) == x \div (2 ^ n)

(* Error::OutputDoesNotFit, Error::InvalidInput { at_offset }, and the
   outcomes Ok(n) and panic (index out of bounds unwinds the call) *)
Ok(n) == [kind |-> "Ok", val |-> n]

OutputDoesNotFit == [kind |-> "OutputDoesNotFit", val |-> 0]

InvalidInput(at_offset) == [kind |-> "InvalidInput", val |-> at_offset]

Panic == [kind |-> "Panic", val |-> 0]

(* Quad::new *)
QuadNew == [codes |-> <<0, 0, 0, 0>>, used |-> 0]

(* Quad::add: codes[used] = v; used += 1.  codes has 4 slots, so the
   indexing panics when used = 4. *)
QuadAddPanics(q) == q.used >= Len(q.codes)

QuadAdd(q, v) == [codes |-> [q.codes EXCEPT ![q.used + 1] = v], used |-> q.used + 1]

(* Quad::complete *)
QuadComplete(q) == q.used = 4

(* mutant of Convert: the second byte masks b with 0x3 instead of 0xf *)
ConvertMaskSlip(q) ==
    LET a == q.codes[1]
        b == q.codes[2]
        c == q.codes[3]
        d == q.codes[4]
    IN  << BitOr(Shl(a, 2), Shr(b, 4)),
           BitOr(Shl(BitAnd(b, 3), 4), Shr(c, 2)),
           BitOr(Shl(BitAnd(c, 3), 6), d) >>

(* Quad::convert: the three bytes of the triple (used is reset by the caller
   of this operator, see EmitPad) *)
Convert(q) ==
    LET a == q.codes[1]
        b == q.codes[2]
        c == q.codes[3]
        d == q.codes[4]
    IN  << BitOr(Shl(a, 2), Shr(b, 4)),
           BitOr(Shl(BitAnd(b, 15), 4), Shr(c, 2)),
           BitOr(Shl(BitAnd(c, 3), 6), d) >>

(* mutant of EmitLen: the padding is not subtracted *)
EmitLenIgnoresPad(pad) == 3

(* len = 3 - pad in Quad::emit_pad *)
EmitLen(pad) == 3 - pad

(* mutant of EmitPad: when the chunk does not fit, the bytes that do fit are
   written before the error is returned *)
EmitPadTruncates(q, buf, offs, pad) ==
    LET len == EmitLen(pad)
        t   == Convert(q)
        q2  == [q EXCEPT !.used = 0]
    IN  [quad |-> q2,
         buf  |-> [i \in 1..Len(buf) |->
                     IF i > offs /\ i <= offs + len THEN t[i - offs] ELSE buf[i]],
         res  |-> IF len <= Len(buf) - offs THEN Ok(len) ELSE OutputDoesNotFit]

(* Quad::emit_pad on the slice out = buf[offs..]: convert() resets used
   before the bounds check; the chunk is written only when len bytes fit. *)
EmitPad(q, buf, offs, pad) ==
    LET len == EmitLen(pad)
        t   == Convert(q)
        q2  == [q EXCEPT !.used = 0]
    IN  IF len <= Len(buf) - offs
        THEN [quad |-> q2,
              buf  |-> [i \in 1..Len(buf) |->
                          IF i > offs /\ i <= offs + len THEN t[i - offs] ELSE buf[i]],
              res  |-> Ok(len)]
        ELSE [quad |-> q2, buf |-> buf, res |-> OutputDoesNotFit]

(* Quad::emit *)
Emit(q, buf, offs) == EmitPad(q, buf, offs, 0)

(* the loop `for _ in 0..pad { self.add(0) }` of Quad::emit_final *)
RECURSIVE AddZeros(_, _)
AddZeros(q, n) ==
    IF n = 0 THEN [quad |-> q, panic |-> FALSE]
    ELSE IF QuadAddPanics(q) THEN [quad |-> q, panic |-> TRUE]
    ELSE AddZeros(QuadAdd(q, 0), n - 1)

(* mutant of EmitFinal: three leftover values are emitted as a full triple *)
EmitFinalNoImpliedPad(q, pad, buf, offs) ==
    LET z  == AddZeros(q, pad)
        q1 == z.quad
    IN  IF z.panic THEN [quad |-> q1, buf |-> buf, res |-> Panic]
        ELSE IF q1.used = 4 /\ pad \in {0, 1, 2} THEN EmitPad(q1, buf, offs, pad)
        ELSE IF q1.used = 3 /\ pad = 0 THEN EmitPad(QuadAdd(q1, 0), buf, offs, 0)
        ELSE IF q1.used = 2 /\ pad = 0 THEN EmitPad(QuadAdd(QuadAdd(q1, 0), 0), buf, offs, 2)
        ELSE IF q1.used = 0 THEN [quad |-> q1, buf |-> buf, res |-> Ok(0)]
        ELSE [quad |-> q1, buf |-> buf, res |-> InvalidInput(0)]

(* Quad::emit_final *)
EmitFinal(q, pad, buf, offs) ==
    LET z  == AddZeros(q, pad)
        q1 == z.quad
    IN  IF z.panic THEN [quad |-> q1, buf |-> buf, res |-> Panic]
        ELSE IF q1.used = 4 /\ pad \in {0, 1, 2} THEN EmitPad(q1, buf, offs, pad)
        ELSE IF q1.used = 3 /\ pad = 0 THEN EmitPad(QuadAdd(q1, 0), buf, offs, 1)
        ELSE IF q1.used = 2 /\ pad = 0 THEN EmitPad(QuadAdd(QuadAdd(q1, 0), 0), buf, offs, 2)
        ELSE IF q1.used = 0 THEN [quad |-> q1, buf |-> buf, res |-> Ok(0)]
        ELSE [quad |-> q1, buf |-> buf, res |-> InvalidInput(0)]

(* mutant of MatchArm: the (_, SKIP) arm is tried after the Pad1/Pad2 arms *)
MatchArmSkipOnlyInData(st, code) ==
    IF st = "Data" /\ code = SKIP THEN "skip"
    ELSE IF st = "Data" /\ code = PAD THEN "pad1"
    ELSE IF st = "Pad1" /\ code = PAD THEN "pad2"
    ELSE IF st = "Data" THEN "add"
    ELSE "invalid"

(* mutant of MatchArm: a value is added whatever the state *)
MatchArmValueInAnyState(st, code) ==
    IF code = SKIP THEN "skip"
    ELSE IF st = "Data" /\ code = PAD THEN "pad1"
    ELSE IF st = "Pad1" /\ code = PAD THEN "pad2"
    ELSE IF code < 64 THEN "add"
    ELSE "invalid"

(* the arm taken by `match (self.state, self.table[*inp as usize])` in
   Decoder::process, arms tried in source order *)
MatchArm(st, code) ==
    IF code = SKIP THEN "skip"
    ELSE IF st = "Data" /\ code = PAD THEN "pad1"
    ELSE IF st = "Pad1" /\ code = PAD THEN "pad2"
    ELSE IF st = "Data" THEN "add"
    ELSE "invalid"

(* the padding count computed from the state when last is set *)
PadOf(st) == IF st = "Data" THEN 0 ELSE IF st = "Pad1" THEN 1 ELSE 2

(* one iteration of the byte loop of Decoder::process on byte inp[i]; r
   carries state, quad, the output buffer, offs and the early return
   (res.kind = "none" while the loop runs) *)
Running == [kind |-> "none", val |-> 0]

(* mutant of ProcessByte: a skipped byte puts the decoder back in the Data
   state *)
ProcessByteSkipRestarts(table, r, inp, i) ==
    LET code == table[inp[i] + 1]
        arm  == MatchArm(r.state, code)
    IN  IF arm = "skip" THEN [r EXCEPT !.state = "Data"]
        ELSE IF arm = "invalid" THEN [r EXCEPT !.res = InvalidInput(i - 1)]
        ELSE IF arm = "pad1" THEN [r EXCEPT !.state = "Pad1"]
        ELSE IF arm = "pad2" THEN [r EXCEPT !.state = "Pad2"]
        ELSE IF ~QuadComplete(QuadAdd(r.quad, code))
        THEN [r EXCEPT !.quad = QuadAdd(r.quad, code)]
        ELSE \* if self.quad.complete() { offs += self.quad.emit(&mut output[offs..])? }
          CHOOSE x \in
            { IF e.res.kind = "Ok"
              THEN [r EXCEPT !.quad = e.quad, !.buf = e.buf, !.offs = r.offs + e.res.val]
              ELSE [r EXCEPT !.quad = e.quad, !.buf = e.buf, !.res = e.res]
              : e \in {Emit(QuadAdd(r.quad, code), r.buf, r.offs)} } : TRUE

ProcessByte(table, r, inp, i) ==
    LET code == table[inp[i] + 1]
        arm  == MatchArm(r.state, code)
    IN  IF arm = "skip" THEN r
        ELSE IF arm = "invalid" THEN [r EXCEPT !.res = InvalidInput(i - 1)]
        ELSE IF arm = "pad1" THEN [r EXCEPT !.state = "Pad1"]
        ELSE IF arm = "pad2" THEN [r EXCEPT !.state = "Pad2"]
        ELSE IF ~QuadComplete(QuadAdd(r.quad, code))
        THEN [r EXCEPT !.quad = QuadAdd(r.quad, code)]
        ELSE \* if self.quad.complete() { offs += self.quad.emit(&mut output[offs..])? }
          CHOOSE x \in
            { IF e.res.kind = "Ok"
              THEN [r EXCEPT !.quad = e.quad, !.buf = e.buf, !.offs = r.offs + e.res.val]
              ELSE [r EXCEPT !.quad = e.quad, !.buf = e.buf, !.res = e.res]
              : e \in {Emit(QuadAdd(r.quad, code), r.buf, r.offs)} } : TRUE

(* the byte loop of Decoder::process from index i on *)
RECURSIVE ProcessLoop(_, _, _, _)
ProcessLoop(table, inp, i, r) ==
    IF i > Len(inp) \/ r.res.kind # "none" THEN r
    ELSE CHOOSE x \in
           { ProcessLoop(table, inp, i + 1, r1) : r1 \in {ProcessByte(table, r, inp, i)} } : TRUE

(* the `if last` part of Decoder::process and its return value *)
ProcessEnd(r, last) ==
    IF r.res.kind # "none" THEN r
    ELSE IF last
    THEN CHOOSE x \in
           { IF f.res.kind = "Ok"
             THEN [r EXCEPT !.quad = f.quad, !.buf = f.buf,
                            !.offs = r.offs + f.res.val,
                            !.res = Ok(r.offs + f.res.val)]
             ELSE [r EXCEPT !.quad = f.quad, !.buf = f.buf, !.res = f.res]
             : f \in {EmitFinal(r.quad, PadOf(r.state), r.buf, r.offs)} } : TRUE
    ELSE [r EXCEPT !.res = Ok(r.offs)]

(* mutant of Process: every call starts with an empty quad *)
ProcessForgetsQuad(table, st, q, inp, buf, last) ==
    CHOOSE x \in
      { ProcessEnd(r, last) :
          r \in { ProcessLoop(table, inp, 1,
                    [state |-> st, quad |-> QuadNew, buf |-> buf, offs |-> 0,
                     res |-> Running]) } }
      : TRUE

(* Decoder::process *)
Process(table, st, q, inp, buf, last) ==
    CHOOSE x \in
      { ProcessEnd(r, last) :
          r \in { ProcessLoop(table, inp, 1,
                    [state |-> st, quad |-> q, buf |-> buf, offs |-> 0, res |-> Running]) } }
      : TRUE

(* mutant of decode_len_estimate: rounds down instead of up *)
decode_len_estimate_floor(input_len) == (input_len \div 4) * 3

(* decode_len_estimate *)
decode_len_estimate(input_len) == ((input_len + 3) \div 4) * 3

(* decode: Decoder::new(alphabet).finish(input, output) *)
decode(a, inp, buf) == Process(decode_table(a), "Data", QuadNew, inp, buf, TRUE)

(* decode_into_vec: the result and the returned Vec *)
decode_into_vec(a, inp) ==
    CHOOSE x \in
      { [res |-> r.res,
         out |-> IF r.res.kind = "Ok" THEN SubSeq(r.buf, 1, r.res.val) ELSE << >>]
        : r \in {decode(a, inp, [i \in 1..decode_len_estimate(Len(inp)) |-> 0])} } : TRUE

VARIABLES
    alphabet,   \* the Alphabet the Decoder was made with (selects Decoder.table)
    state,      \* Decoder.state: "Data", "Pad1" or "Pad2"
    quad,       \* Decoder.quad: [codes, used]
    alive,      \* FALSE once finish has consumed the Decoder
    op,         \* the last call: "new", "update", "finish", "decode", "decode_into_vec"
    input,      \* the input slice of the last call
    output,     \* the output slice (or the returned Vec) after the last call
    result,     \* what the last call returned
    fed,        \* concatenation of the inputs of all calls so far
    produced,   \* concatenation of the bytes returned by the successful calls
    clean,      \* TRUE while every call so far returned Ok
    fits        \* TRUE while no call so far returned OutputDoesNotFit

VARIABLES
    surface,    \* who pulls: "read_one", "read_one_from_slice", "certs"; "none" for the decoder alone
    file,       \* the bytes the reader (or the slice) was made over
    reader,     \* what the reader has not consumed yet (the slice `input`)
    pc,         \* "idle" between pulls, "loop" inside one, "end" when the caller has stopped
    scan_line,  \* next_line of the last turn of the loop
    scan_section, \* the local `section` of the pull
    scan_b64buf,  \* the local `b64buf` of the pull
    outs,       \* the results of the pulls so far, in order
    own_body,   \* history: the lines read since the last line that began with "-----BEGIN "
    open_line   \* history: the last BEGIN line that opened a section

b64vars == <<alphabet, state, quad, alive, op, input, output, result, fed, produced, clean, fits>>

pemvars == <<surface, file, reader, pc, scan_line, scan_section, scan_b64buf, outs, own_body, open_line>>

vars == <<b64vars, pemvars>>

(* bounds of the explored calls *)
MaxInput == 5

MaxChunk == 2

MaxCap == 3

MaxLong == 8

MaxPayload == 4

(* input bytes, one per class of the alphabet: 'a' (value 26), '=' (pad),
   '!' (invalid), and under Pem also '\n' (skip; under Standard it is invalid
   like '!') *)
Symbols(a) == IF a = "Pem" THEN {97, 61, 33, 10} ELSE {97, 61, 33}

(* what the caller's output buffer holds before a call *)
FillBytes == {170}

Alphabets == {"Standard", "Pem"}

SeqsUpTo(S, n) == UNION {[1..k -> S] : k \in 0..n}

Take(s, n) == SubSeq(s, 1, n)

Drop(s, n) == SubSeq(s, n + 1, Len(s))

(* RFC 4648 table 1, the character of a 6-bit value: what an encoder writes *)
EncodeChar(v) ==
    IF v < 26 THEN 65 + v
    ELSE IF v < 52 THEN 97 + (v - 26)
    ELSE IF v < 62 THEN 48 + (v - 52)
    ELSE IF v = 62 THEN 43
    ELSE 47

(* RFC 4648 section 4, the padded encoding of a byte string *)
RECURSIVE Encode(_)
Encode(p) ==
    IF Len(p) = 0 THEN << >>
    ELSE IF Len(p) = 1
    THEN << EncodeChar(p[1] \div 4), EncodeChar((p[1] % 4) * 16), 61, 61 >>
    ELSE IF Len(p) = 2
    THEN << EncodeChar(p[1] \div 4), EncodeChar((p[1] % 4) * 16 + p[2] \div 16),
            EncodeChar((p[2] % 16) * 4), 61 >>
    ELSE << EncodeChar(p[1] \div 4), EncodeChar((p[1] % 4) * 16 + p[2] \div 16),
            EncodeChar((p[2] % 16) * 4 + p[3] \div 64), EncodeChar(p[3] % 64) >>
         \o Encode(Drop(p, 3))

(* the inputs of the streaming calls *)
Chunks == SeqsUpTo(Symbols(alphabet), MaxChunk) \ {<< >>}

(* the inputs of the one-shot calls: every short string over Symbols, and
   longer strings of symbols and pads *)
LongInputs == SeqsUpTo({97, 61}, MaxLong)

Inputs == SeqsUpTo(Symbols(alphabet), MaxInput) \cup LongInputs

(* one quad of symbols, the last one or two possibly pads *)
QuadValues == {0, 3, 15, 21, 42, 48, 60, 63}

QuadChars == {EncodeChar(v) : v \in QuadValues}

QuadInputs ==
    {<<w, x, y, z>> : w \in QuadChars, x \in QuadChars, y \in QuadChars,
                      z \in QuadChars \cup {61}}
    \cup {<<w, x, 61, 61>> : w \in QuadChars, x \in QuadChars}

(* encoded payloads *)
PayloadBytes == {0, 105, 166, 255}

Payloads == SeqsUpTo(PayloadBytes, MaxPayload)

Encodings == {Encode(p) : p \in Payloads}

(* a single byte of any value *)
Bytes1 == {<<b>> : b \in 0..255}

(***************************************************************************)
(* pemfile.rs: the section scanner.  Byte strings are sequences of 0..255.  *)
(***************************************************************************)

(* b"-----BEGIN ", the prefix tested by line.starts_with in read_one_impl *)
BEGIN_PREFIX == <<45, 45, 45, 45, 45, 66, 69, 71, 73, 78, 32>>

(* b"-----END " *)
END_PREFIX == <<45, 45, 45, 45, 45, 69, 78, 68, 32>>

(* b"-----" *)
DASHES == <<45, 45, 45, 45, 45>>

(* b"CERTIFICATE" *)
L_CERTIFICATE == <<67, 69, 82, 84, 73, 70, 73, 67, 65, 84, 69>>

(* b"PUBLIC KEY" *)
L_PUBLIC_KEY == <<80, 85, 66, 76, 73, 67, 32, 75, 69, 89>>

(* b"RSA PRIVATE KEY" *)
L_RSA_PRIVATE_KEY == <<82, 83, 65, 32, 80, 82, 73, 86, 65, 84, 69, 32, 75, 69, 89>>

(* b"PRIVATE KEY" *)
L_PRIVATE_KEY == <<80, 82, 73, 86, 65, 84, 69, 32, 75, 69, 89>>

(* b"EC PRIVATE KEY" *)
L_EC_PRIVATE_KEY == <<69, 67, 32, 80, 82, 73, 86, 65, 84, 69, 32, 75, 69, 89>>

(* b"X509 CRL" *)
L_X509_CRL == <<88, 53, 48, 57, 32, 67, 82, 76>>

(* b"CERTIFICATE REQUEST" *)
L_CERTIFICATE_REQUEST == <<67, 69, 82, 84, 73, 70, 73, 67, 65, 84, 69, 32, 82, 69, 81, 85, 69, 83, 84>>

(* <[u8]>::starts_with *)
StartsWith(s, p) == Len(s) >= Len(p) /\ SubSeq(s, 1, Len(p)) = p

(* the results of a pull: Ok(None), Ok(Some(item)), Err(..), or a panic.
   tag is the Item variant, or the Debug text of the base64 error; bytes is
   the payload, the end marker, the offending line, or the error's offset *)
NoMoreItems == [kind |-> "None", tag |-> "", bytes |-> << >>]

Item(variant, der) == [kind |-> "Item", tag |-> variant, bytes |-> der]

MissingSectionEnd(end_marker) ==
    [kind |-> "MissingSectionEnd", tag |-> "", bytes |-> end_marker]

IllegalSectionStart(line) ==
    [kind |-> "IllegalSectionStart", tag |-> "", bytes |-> line]

Base64Decode(err) == [kind |-> "Base64Decode", tag |-> err.kind, bytes |-> <<err.val>>]

PullPanic == [kind |-> "Panic", tag |-> "", bytes |-> << >>]

(* section: Option<(Vec<u8>, Vec<u8>)>, the label and the end marker *)
NoSection == [open |-> FALSE, ty |-> << >>, end |-> << >>]

SomeSection(ty, end) == [open |-> TRUE, ty |-> ty, end |-> end]

(* next_line: Option<&[u8]> *)
NoLine == [some |-> FALSE, line |-> << >>]

SomeLine(line) == [some |-> TRUE, line |-> line]

(* base64::decoded_length: the size of the buffer the body is decoded into
   (always sufficient) *)
decoded_length(n) == decode_len_estimate(n)

(* base64::decode_public: the base64 decoder applied to the body text with the
   tolerant alphabet *)
decode_public(b64buf, der) == decode("Pem", b64buf, der)

(* base64::decode_secret: as decode_public, for private key material *)
decode_secret(b64buf, der) == decode("Pem", b64buf, der)

(* mutant of TrailerScan: the scan steps over every byte that is no hyphen *)
RECURSIVE TrailerScanSkipsAll(_, _, _, _)
TrailerScanSkipsAll(line, i, trailer, pos) ==
    IF i = 0 THEN [trailer |-> trailer, pos |-> pos]
    ELSE IF line[i] = 45 THEN TrailerScanSkipsAll(line, i - 1, trailer + 1, i - 1)
    ELSE TrailerScanSkipsAll(line, i - 1, trailer, pos)

(* the reverse scan of a BEGIN line: counts the hyphens, steps over CR, LF
   and space, stops at any other byte; i is the 1-based index examined, pos
   the 0-based index of the last hyphen counted *)
RECURSIVE TrailerScan(_, _, _, _)
TrailerScan(line, i, trailer, pos) ==
    IF i = 0 THEN [trailer |-> trailer, pos |-> pos]
    ELSE IF line[i] = 45 THEN TrailerScan(line, i - 1, trailer + 1, i - 1)
    ELSE IF line[i] \in {10, 13, 32} THEN TrailerScan(line, i - 1, trailer, pos)
    ELSE [trailer |-> trailer, pos |-> pos]

(* the labels decoded with decode_secret *)
SecretLabels == {L_RSA_PRIVATE_KEY, L_PRIVATE_KEY, L_EC_PRIVATE_KEY}

(* match section_type.as_slice(): the Item variant of a label, "" for the
   wildcard arm *)
ItemVariant(section_type) ==
    IF section_type = L_CERTIFICATE THEN "X509Certificate"
    ELSE IF section_type = L_PUBLIC_KEY THEN "SubjectPublicKeyInfo"
    ELSE IF section_type = L_RSA_PRIVATE_KEY THEN "Pkcs1Key"
    ELSE IF section_type = L_PRIVATE_KEY THEN "Pkcs8Key"
    ELSE IF section_type = L_EC_PRIVATE_KEY THEN "Sec1Key"
    ELSE IF section_type = L_X509_CRL THEN "Crl"
    ELSE IF section_type = L_CERTIFICATE_REQUEST THEN "Csr"
    ELSE ""

(* what read_one_impl returns, with the section and b64buf it leaves *)
Flow(flow, out, section, b64buf) ==
    [flow |-> flow, out |-> out, section |-> section, b64buf |-> b64buf]

(* read_one_impl, the BEGIN branch *)
BeginLine(line, section, b64buf) ==
    LET t == CHOOSE x \in {TrailerScan(line, Len(line), 0, Len(line))} : TRUE
    IN  IF t.trailer # 5 THEN Flow("Err", IllegalSectionStart(line), section, b64buf)
        ELSE IF t.pos < 11 THEN Flow("Panic", PullPanic, section, b64buf)
        ELSE LET ty == SubSeq(line, 12, t.pos)
             IN  Flow("Continue", NoMoreItems,
                      SomeSection(ty, END_PREFIX \o ty \o DASHES), b64buf)

(* mutant of EndLine: the result of the match on the label is returned as it
   is, so a label outside the table ends the pull with Ok(None) *)
EndLineStopsAtUnknown(line, section, b64buf) ==
    LET der == [i \in 1..decoded_length(Len(b64buf)) |-> 0]
        r == CHOOSE x \in
               { IF section.ty \in SecretLabels THEN decode_secret(b64buf, der)
                 ELSE decode_public(b64buf, der) } : TRUE
        variant == ItemVariant(section.ty)
    IN  IF r.res.kind = "Panic" THEN Flow("Panic", PullPanic, section, b64buf)
        ELSE IF r.res.kind # "Ok" THEN Flow("Err", Base64Decode(r.res), section, b64buf)
        ELSE IF variant # ""
        THEN Flow("Break", Item(variant, SubSeq(r.buf, 1, r.res.val)), section, b64buf)
        ELSE Flow("Break", NoMoreItems, NoSection, << >>)

(* read_one_impl, a line that starts with the end marker of the open section *)
EndLine(line, section, b64buf) ==
    LET der == [i \in 1..decoded_length(Len(b64buf)) |-> 0]
        r == CHOOSE x \in
               { IF section.ty \in SecretLabels THEN decode_secret(b64buf, der)
                 ELSE decode_public(b64buf, der) } : TRUE
        variant == ItemVariant(section.ty)
    IN  IF r.res.kind = "Panic" THEN Flow("Panic", PullPanic, section, b64buf)
        ELSE IF r.res.kind # "Ok" THEN Flow("Err", Base64Decode(r.res), section, b64buf)
        ELSE IF variant # ""
        THEN Flow("Break", Item(variant, SubSeq(r.buf, 1, r.res.val)), section, b64buf)
        ELSE Flow("Continue", NoMoreItems, NoSection, << >>)

(* mutant of read_one_impl: the end of the input ends the scan whether or not
   a section is open *)
read_one_impl_eof_ends(next_line, section, b64buf) ==
    IF ~next_line.some
    THEN Flow("Break", NoMoreItems, NoSection, b64buf)
    ELSE LET line == next_line.line
         IN  IF StartsWith(line, BEGIN_PREFIX) THEN BeginLine(line, section, b64buf)
             ELSE IF section.open /\ StartsWith(line, section.end)
             THEN EndLine(line, section, b64buf)
             ELSE IF section.open THEN Flow("Continue", NoMoreItems, section, b64buf \o line)
             ELSE Flow("Continue", NoMoreItems, section, b64buf)

(* mutant of read_one_impl: a line that is no marker is buffered whether or
   not a section is open *)
read_one_impl_buffers_all(next_line, section, b64buf) ==
    IF ~next_line.some
    THEN IF section.open
         THEN Flow("Err", MissingSectionEnd(section.end), NoSection, b64buf)
         ELSE Flow("Break", NoMoreItems, NoSection, b64buf)
    ELSE LET line == next_line.line
         IN  IF StartsWith(line, BEGIN_PREFIX) THEN BeginLine(line, section, b64buf)
             ELSE IF section.open /\ StartsWith(line, section.end)
             THEN EndLine(line, section, b64buf)
             ELSE Flow("Continue", NoMoreItems, section, b64buf \o line)

(* read_one_impl *)
read_one_impl(next_line, section, b64buf) ==
    IF ~next_line.some
    THEN IF section.open
         THEN Flow("Err", MissingSectionEnd(section.end), NoSection, b64buf)
         ELSE Flow("Break", NoMoreItems, NoSection, b64buf)
    ELSE LET line == next_line.line
         IN  IF StartsWith(line, BEGIN_PREFIX) THEN BeginLine(line, section, b64buf)
             ELSE IF section.open /\ StartsWith(line, section.end)
             THEN EndLine(line, section, b64buf)
             ELSE IF section.open THEN Flow("Continue", NoMoreItems, section, b64buf \o line)
             ELSE Flow("Continue", NoMoreItems, section, b64buf)

(* Iterator::position: the 1-based index of the first byte of s in set S,
   0 for None *)
Position(s, S) ==
    IF \E i \in 1..Len(s) : s[i] \in S
    THEN CHOOSE i \in 1..Len(s) : s[i] \in S /\ \A j \in 1..(i - 1) : s[j] \notin S
    ELSE 0

(* mutant of SliceNextLine: the input is split at the newline and the
   newline is left at the head of the remainder *)
SliceNextLineKeepsNewline(inp) ==
    LET index == Position(inp, {10})
    IN  IF index > 0
        THEN [next_line |-> SomeLine(Take(inp, index - 1)), inp |-> Drop(inp, index - 1)]
        ELSE [next_line |-> NoLine, inp |-> inp]

(* the head of the loop of read_one_from_slice: the next line is what
   precedes the first b'\n', without it; there is no next line when no b'\n'
   is left *)
SliceNextLine(inp) ==
    LET index == Position(inp, {10})
    IN  IF index > 0
        THEN [next_line |-> SomeLine(Take(inp, index - 1)), inp |-> Drop(inp, index)]
        ELSE [next_line |-> NoLine, inp |-> inp]

(* mutant of ReadUntilNewlineLoop: the byte after the terminator is consumed
   with it *)
RECURSIVE ReadUntilNewlineSwallows(_, _, _, _)
ReadUntilNewlineSwallows(rd, cap, buf, read) ==
    LET available == Take(rd, IF Len(rd) < cap THEN Len(rd) ELSE cap)
        i == Position(available, {10, 13})
        used == IF i < Len(rd) THEN i + 1 ELSE i
    IN  IF i > 0
        THEN [rd |-> Drop(rd, used), buf |-> buf \o Take(available, i), read |-> read + used]
        ELSE IF Len(available) = 0
        THEN [rd |-> rd, buf |-> buf, read |-> read]
        ELSE CHOOSE x \in
               { ReadUntilNewlineSwallows(r, cap, b, n) :
                   r \in {Drop(rd, Len(available))},
                   b \in {buf \o available},
                   n \in {read + Len(available)} } : TRUE

(* read_until_newline on a BufRead whose fill_buf hands out at most cap bytes
   at a time: rd is what the reader has left, buf the line being built *)
RECURSIVE ReadUntilNewlineLoop(_, _, _, _)
ReadUntilNewlineLoop(rd, cap, buf, read) ==
    LET available == Take(rd, IF Len(rd) < cap THEN Len(rd) ELSE cap)
        i == Position(available, {10, 13})
    IN  IF i > 0
        THEN [rd |-> Drop(rd, i), buf |-> buf \o Take(available, i), read |-> read + i]
        ELSE IF Len(available) = 0
        THEN [rd |-> rd, buf |-> buf, read |-> read]
        ELSE CHOOSE x \in
               { ReadUntilNewlineLoop(r, cap, b, n) :
                   r \in {Drop(rd, Len(available))},
                   b \in {buf \o available},
                   n \in {read + Len(available)} } : TRUE

read_until_newline(rd, cap) == ReadUntilNewlineLoop(rd, cap, << >>, 0)

(* the head of the loop of read_one: line.clear(), read_until_newline, and
   next_line = None when nothing was read *)
StreamNextLine(rd, cap) ==
    LET l == CHOOSE x \in {read_until_newline(rd, cap)} : TRUE
    IN  [next_line |-> IF l.read = 0 THEN NoLine ELSE SomeLine(l.buf), inp |-> l.rd]

(* read_one's translation of Error into io::Error(InvalidData, message): tag
   is the message's template (or the base64 error's text), bytes its argument *)
IoError(e) ==
    IF e.kind = "MissingSectionEnd"
    THEN [kind |-> "io::Error", tag |-> "section end {:?} missing", bytes |-> e.bytes]
    ELSE IF e.kind = "IllegalSectionStart"
    THEN [kind |-> "io::Error", tag |-> "illegal section start: {:?}", bytes |-> e.bytes]
    ELSE [kind |-> "io::Error", tag |-> e.tag, bytes |-> e.bytes]

(* what a pull returns to its caller, with what it leaves of the inp *)
Pulled(out, inp) == [out |-> out, inp |-> inp]

(* read_one_from_slice: the loop from a given scanner state *)
RECURSIVE ReadOneFromSliceLoop(_, _, _)
ReadOneFromSliceLoop(inp, section, b64buf) ==
    CHOOSE x \in
      { IF f.flow = "Continue"
        THEN ReadOneFromSliceLoop(n.inp, f.section, f.b64buf)
        ELSE Pulled(f.out, n.inp)
        : f \in { read_one_impl(n.next_line, section, b64buf) : n \in {SliceNextLine(inp)} },
          n \in {SliceNextLine(inp)} } : TRUE

read_one_from_slice(inp) == ReadOneFromSliceLoop(inp, NoSection, << >>)

(* read_one: the loop from a given scanner state *)
RECURSIVE ReadOneLoop(_, _, _, _)
ReadOneLoop(rd, cap, section, b64buf) ==
    CHOOSE x \in
      { IF f.flow = "Continue"
        THEN ReadOneLoop(n.inp, cap, f.section, f.b64buf)
        ELSE IF f.flow = "Err" THEN Pulled(IoError(f.out), n.inp)
        ELSE Pulled(f.out, n.inp)
        : f \in { read_one_impl(n.next_line, section, b64buf) : n \in {StreamNextLine(rd, cap)} },
          n \in {StreamNextLine(rd, cap)} } : TRUE

read_one(rd, cap) == ReadOneLoop(rd, cap, NoSection, << >>)

(* mutant of certs: the closure of filter_map drops the errors as well *)
RECURSIVE certs_drops_errors(_, _)
certs_drops_errors(rd, cap) ==
    CHOOSE x \in
      { IF r.out.kind \notin {"None", "Panic"}
           /\ ~(r.out.kind = "Item" /\ r.out.tag = "X509Certificate")
        THEN certs_drops_errors(r.inp, cap)
        ELSE r
        : r \in {read_one(rd, cap)} } : TRUE

(* Iterator::next of certs(rd): read_one(rd).transpose() filtered by the
   closure of filter_map; kind "None" is the end of the iteration *)
RECURSIVE certs(_, _)
certs(rd, cap) ==
    CHOOSE x \in
      { IF r.out.kind = "Item" /\ r.out.tag # "X509Certificate"
        THEN certs(r.inp, cap)
        ELSE r
        : r \in {read_one(rd, cap)} } : TRUE

(* ---- the inputs of the scanner ---- *)

(* bounds of the explored files *)
MaxLines == 3

MaxSections == 3

(* b"FOO", a label outside the dispatch table *)
L_FOO == <<70, 79, 79>>

BeginOf(label) == BEGIN_PREFIX \o label \o DASHES

EndOf(label) == END_PREFIX \o label \o DASHES

(* body lines: "aaa=" (the bytes 105 166), "AAAA" (0 0 0), and "a", a single
   symbol, which does not decode *)
BodyAaa == <<97, 97, 97, 61>>

BodyZero == <<65, 65, 65, 65>>

BodyBad == <<97>>

(* b"-----BEGIN FOO----", four trailing hyphens *)
BeginShort == BEGIN_PREFIX \o L_FOO \o <<45, 45, 45, 45>>

(* files of any lines in any order *)
FreeLines ==
    { BeginOf(L_CERTIFICATE), EndOf(L_CERTIFICATE), BeginOf(L_FOO), EndOf(L_FOO),
      BodyAaa, BodyBad, BeginShort }

FreeFiles == SeqsUpTo(FreeLines, MaxLines)

(* files of blocks: well-formed sections, a line of text, and a section
   that is begun and has no END line *)
SectionOf(label, body) == <<BeginOf(label), body, EndOf(label)>>

Blocks ==
    { SectionOf(L_CERTIFICATE, BodyAaa), SectionOf(L_CERTIFICATE, BodyZero),
      SectionOf(L_PRIVATE_KEY, BodyAaa), SectionOf(L_FOO, BodyZero), <<BodyAaa>>,
      <<BeginOf(L_FOO), BodyZero>> }

RECURSIVE Flatten(_)
Flatten(ss) == IF Len(ss) = 0 THEN << >> ELSE ss[1] \o Flatten(Drop(ss, 1))

SectionFiles == { Flatten(bs) : bs \in SeqsUpTo(Blocks, MaxSections) }

(* one section under each label of the dispatch table, and under labels
   close to them: b"CERTIFICATES", b"certificate", b"CERTIFICATE " and b"" *)
TableLabels ==
    { L_CERTIFICATE, L_PUBLIC_KEY, L_RSA_PRIVATE_KEY, L_PRIVATE_KEY, L_EC_PRIVATE_KEY,
      L_X509_CRL, L_CERTIFICATE_REQUEST }

OtherLabels ==
    { L_FOO, <<67, 69, 82, 84, 73, 70, 73, 67, 65, 84, 69, 83>>,
      <<99, 101, 114, 116, 105, 102, 105, 99, 97, 116, 101>>,
      <<67, 69, 82, 84, 73, 70, 73, 67, 65, 84, 69, 32>>, << >> }

LabelFiles == { SectionOf(l, BodyAaa) : l \in TableLabels \cup OtherLabels }

(* BEGIN lines with other endings than the label and five hyphens:
   b"-----BEGIN CERTIFICATE-----  "
   b"-----BEGIN CERTIFICATE------"
   b"-----BEGIN CERTIFICATE----"
   b"-----BEGIN CERTIFICATE-- ---"
   b"-----BEGIN CERTIFICATE"
   b"-----BEGIN "
   b"-----BEGIN   "
   b"-----BEGIN -- -- -"
   b"-----BEGIN A-B-----"
   b"-----BEGIN CERTIFICATE ----- "
   b"-----BEGIN ----------" *)
BeginVariants ==
    { <<45, 45, 45, 45, 45, 66, 69, 71, 73, 78, 32, 67, 69, 82, 84, 73, 70, 73, 67, 65, 84, 69, 45, 45, 45, 45, 45, 32, 32>>,
      <<45, 45, 45, 45, 45, 66, 69, 71, 73, 78, 32, 67, 69, 82, 84, 73, 70, 73, 67, 65, 84, 69, 45, 45, 45, 45, 45, 45>>,
      <<45, 45, 45, 45, 45, 66, 69, 71, 73, 78, 32, 67, 69, 82, 84, 73, 70, 73, 67, 65, 84, 69, 45, 45, 45, 45>>,
      <<45, 45, 45, 45, 45, 66, 69, 71, 73, 78, 32, 67, 69, 82, 84, 73, 70, 73, 67, 65, 84, 69, 45, 45, 32, 45, 45, 45>>,
      <<45, 45, 45, 45, 45, 66, 69, 71, 73, 78, 32, 67, 69, 82, 84, 73, 70, 73, 67, 65, 84, 69>>,
      <<45, 45, 45, 45, 45, 66, 69, 71, 73, 78, 32>>,
      <<45, 45, 45, 45, 45, 66, 69, 71, 73, 78, 32, 32, 32>>,
      <<45, 45, 45, 45, 45, 66, 69, 71, 73, 78, 32, 45, 45, 32, 45, 45, 32, 45>>,
      <<45, 45, 45, 45, 45, 66, 69, 71, 73, 78, 32, 65, 45, 66, 45, 45, 45, 45, 45>>,
      <<45, 45, 45, 45, 45, 66, 69, 71, 73, 78, 32, 67, 69, 82, 84, 73, 70, 73, 67, 65, 84, 69, 32, 45, 45, 45, 45, 45, 32>>,
      <<45, 45, 45, 45, 45, 66, 69, 71, 73, 78, 32, 45, 45, 45, 45, 45, 45, 45, 45, 45, 45>> }

BeginFiles == { <<v, BodyAaa, EndOf(L_CERTIFICATE)>> : v \in BeginVariants }

(* line terminators: LF, CR LF, CR *)
Terminators == { <<10>>, <<13, 10>>, <<13>> }

(* the bytes of a file: its lines, each followed by the terminator, the last
   one only when final is set *)
RECURSIVE Join(_, _, _)
Join(lines, t, final) ==
    IF Len(lines) = 0 THEN << >>
    ELSE IF Len(lines) = 1 THEN lines[1] \o (IF final THEN t ELSE << >>)
    ELSE lines[1] \o t \o Join(Drop(lines, 1), t, final)

(* a line or a section that makes a pull fail, followed by a section *)
ErrorFiles ==
    { p \o q : p \in { <<BeginShort>>, SectionOf(L_CERTIFICATE, BodyBad) },
               q \in { SectionOf(L_CERTIFICATE, BodyAaa), SectionOf(L_PRIVATE_KEY, BodyAaa) } }

Files ==
    { Join(ls, <<10>>, final) :
        ls \in FreeFiles \cup LabelFiles \cup BeginFiles \cup ErrorFiles, final \in BOOLEAN }
    \cup { Join(ls, t, final) : ls \in SectionFiles, t \in Terminators, final \in BOOLEAN }

(* how many bytes fill_buf hands out at a time: fewer than any line of the
   explored files has, and more than any file has *)
BufCaps == {3, 4096}

Surfaces == {"read_one", "read_one_from_slice", "certs"}

(* ---- the scanner's surfaces as actions ---- *)

(* no scanner runs in the behaviours of the decoder *)
PemIdle ==
    /\ surface = "none"
    /\ file = << >>
    /\ reader = << >>
    /\ pc = "end"
    /\ scan_line = NoLine
    /\ scan_section = NoSection
    /\ scan_b64buf = << >>
    /\ outs = << >>
    /\ own_body = << >>
    /\ open_line = << >>

(* Decoder::new *)
Init ==
    /\ alphabet \in Alphabets
    /\ state = "Data"
    /\ quad = QuadNew
    /\ alive = TRUE
    /\ op = "new"
    /\ input = <<>>
    /\ output = <<>>
    /\ result = Ok(0)
    /\ fed = <<>>
    /\ produced = <<>>
    /\ clean = TRUE
    /\ fits = TRUE
    /\ PemIdle

(* the caller goes on after Ok, and may retry after OutputDoesNotFit; after
   InvalidInput the whole decode has failed *)
Recoverable == {"Ok", "OutputDoesNotFit"}

(* one call of Decoder::process on the current decoder *)
Call(name, inp, cap, fill, last) ==
    \E r \in {Process(decode_table(alphabet), state, quad, inp, [i \in 1..cap |-> fill], last)} :
      LET ok == r.res.kind = "Ok"
      IN
        /\ state' = r.state
        /\ quad' = r.quad
        /\ op' = name
        /\ input' = inp
        /\ output' = r.buf
        /\ result' = r.res
        /\ fed' = fed \o inp
        /\ produced' = IF ok THEN produced \o Take(r.buf, r.res.val) ELSE produced
        /\ clean' = (clean /\ ok)
        /\ fits' = (fits /\ r.res.kind # "OutputDoesNotFit")
        /\ UNCHANGED <<alphabet, pemvars>>

(* Decoder::update *)
UpdateOn(chunks, limit) ==
    /\ alive
    /\ result.kind \in Recoverable
    /\ \E inp \in chunks, cap \in 0..MaxCap, fill \in FillBytes :
          /\ Len(fed) + Len(inp) <= limit
          /\ Call("update", inp, cap, fill, FALSE)
    /\ alive' = TRUE

Update == UpdateOn(Chunks, MaxInput)

(* Decoder::update with one byte on a new decoder: the table lookup *)
Lookup == UpdateOn(Bytes1, 1)

(* Decoder::finish; consumes the decoder *)
Finish ==
    /\ alive
    /\ op # "new"
    /\ result.kind \in Recoverable
    /\ \E inp \in Chunks \cup {<< >>}, cap \in 0..MaxCap, fill \in FillBytes :
          /\ Len(fed) + Len(inp) <= MaxInput
          /\ Call("finish", inp, cap, fill, TRUE)
    /\ alive' = FALSE

(* decode = Decoder::new(alphabet).finish(input, output) *)
Decode ==
    /\ alive
    /\ op = "new"
    /\ \E inp \in Inputs, cap \in 0..MaxCap, fill \in FillBytes :
          Call("decode", inp, cap, fill, TRUE)
    /\ alive' = FALSE

(* decode_into_vec: out = vec![0u8; decode_len_estimate(input.len())];
   len = decode(alphabet, input, &mut out[..])?; out.truncate(len) *)
DecodeIntoVec ==
    /\ alive
    /\ op = "new"
    /\ \E inp \in Inputs \cup QuadInputs \cup Encodings :
         \E r \in {decode(alphabet, inp, [i \in 1..decode_len_estimate(Len(inp)) |-> 0])} :
           LET ok == r.res.kind = "Ok"
           IN  /\ state' = r.state
               /\ quad' = r.quad
               /\ op' = "decode_into_vec"
               /\ input' = inp
               /\ output' = IF ok THEN Take(r.buf, r.res.val) ELSE << >>
               /\ result' = r.res
               /\ fed' = inp
               /\ produced' = IF ok THEN Take(r.buf, r.res.val) ELSE << >>
               /\ clean' = ok
               /\ fits' = (r.res.kind # "OutputDoesNotFit")
    /\ alive' = FALSE
    /\ UNCHANGED <<alphabet, pemvars>>

Next == Update \/ Finish \/ Decode \/ DecodeIntoVec

Spec == Init /\ [][Next]_vars

(* every byte value looked up in the table of either alphabet *)
NextTable == Lookup

SpecTable == Init /\ [][NextTable]_vars

(* a reader (or a slice) over the bytes of a file, before the first pull *)
InitPem ==
    /\ alphabet = "Pem"
    /\ state = "Data"
    /\ quad = QuadNew
    /\ alive = TRUE
    /\ op = "new"
    /\ input = << >>
    /\ output = << >>
    /\ result = Ok(0)
    /\ fed = << >>
    /\ produced = << >>
    /\ clean = TRUE
    /\ fits = TRUE
    /\ surface \in Surfaces
    /\ file \in Files
    /\ reader = file
    /\ pc = "idle"
    /\ scan_line = NoLine
    /\ scan_section = NoSection
    /\ scan_b64buf = << >>
    /\ outs = << >>
    /\ own_body = << >>
    /\ open_line = << >>

(* one turn of the loop of a pull: n is the next line and what the input has
   left after it, f what read_one_impl made of it.  A pull starts (pc =
   "idle") with a fresh section and b64buf; when it returns, its result is
   appended to outs.  stops: the kinds of result after which the caller does
   not pull again *)
LoopTurn(n, f, out, stops) ==
    /\ reader' = n.inp
    /\ scan_line' = n.next_line
    /\ scan_section' = f.section
    /\ scan_b64buf' = f.b64buf
    /\ IF f.flow = "Continue"
       THEN pc' = "loop" /\ outs' = outs
       ELSE /\ pc' = IF out.kind \in stops THEN "end" ELSE "idle"
            /\ outs' = Append(outs, out)
    /\ own_body' = IF ~n.next_line.some THEN own_body
                   ELSE IF StartsWith(n.next_line.line, BEGIN_PREFIX) THEN << >>
                   ELSE own_body \o n.next_line.line
    /\ open_line' = IF n.next_line.some /\ StartsWith(n.next_line.line, BEGIN_PREFIX)
                        /\ f.flow = "Continue"
                     THEN n.next_line.line ELSE open_line
    /\ UNCHANGED <<surface, file, b64vars>>

(* mutant of ReadOneLine: b64buf outlives the pull (it is not created anew
   by each call) *)
ReadOneLineStaleBuffer ==
    /\ surface = "read_one"
    /\ pc \in {"idle", "loop"}
    /\ \E cap \in BufCaps :
         \E n \in {StreamNextLine(reader, cap)} :
           \E f \in { read_one_impl(n.next_line,
                                    IF pc = "idle" THEN NoSection ELSE scan_section,
                                    scan_b64buf) } :
             LoopTurn(n, f, IF f.flow = "Err" THEN IoError(f.out) ELSE f.out,
                      {"None", "Panic"})

(* read_one, one turn of its loop; the caller (iter::from_fn, read_all) pulls
   again after an item and after an error *)
ReadOneLine ==
    /\ surface = "read_one"
    /\ pc \in {"idle", "loop"}
    /\ \E cap \in BufCaps :
         \E n \in {StreamNextLine(reader, cap)} :
           \E f \in { read_one_impl(n.next_line,
                                    IF pc = "idle" THEN NoSection ELSE scan_section,
                                    IF pc = "idle" THEN << >> ELSE scan_b64buf) } :
             LoopTurn(n, f, IF f.flow = "Err" THEN IoError(f.out) ELSE f.out,
                      {"None", "Panic"})

(* mutant of ReadOneFromSliceLine: the remainder returned with an item is
   taken before the END line is split off *)
ReadOneFromSliceLineKeepsEnd ==
    /\ surface = "read_one_from_slice"
    /\ pc \in {"idle", "loop"}
    /\ \E n \in {SliceNextLine(reader)} :
         \E f \in { read_one_impl(n.next_line,
                                  IF pc = "idle" THEN NoSection ELSE scan_section,
                                  IF pc = "idle" THEN << >> ELSE scan_b64buf) } :
           LoopTurn(IF f.flow = "Break" THEN [n EXCEPT !.inp = reader] ELSE n, f, f.out,
                    {"None", "Panic", "MissingSectionEnd", "IllegalSectionStart", "Base64Decode"})

(* read_one_from_slice, one turn of its loop; the caller goes on with the
   remainder returned with an item *)
ReadOneFromSliceLine ==
    /\ surface = "read_one_from_slice"
    /\ pc \in {"idle", "loop"}
    /\ \E n \in {SliceNextLine(reader)} :
         \E f \in { read_one_impl(n.next_line,
                                  IF pc = "idle" THEN NoSection ELSE scan_section,
                                  IF pc = "idle" THEN << >> ELSE scan_b64buf) } :
           LoopTurn(n, f, f.out,
                    {"None", "Panic", "MissingSectionEnd", "IllegalSectionStart", "Base64Decode"})

(* one call of next on the iterator certs(rd) *)
CertsNext ==
    /\ surface = "certs"
    /\ pc = "idle"
    /\ \E cap \in BufCaps :
         \E r \in {certs(reader, cap)} :
           /\ reader' = r.inp
           /\ outs' = Append(outs, r.out)
           /\ pc' = IF r.out.kind \in {"None", "Panic"} THEN "end" ELSE "idle"
    /\ UNCHANGED <<surface, file, scan_line, scan_section, scan_b64buf, own_body, open_line, b64vars>>

NextPem == ReadOneLine \/ ReadOneFromSliceLine \/ CertsNext

SpecPem == InitPem /\ [][NextPem]_vars

(* read_one_from_slice alone, called on a slice and then on each remainder:
   the caller runs each call to its return and calls again after an item *)
InitSlice == InitPem /\ surface = "read_one_from_slice"

NextSlice == ReadOneFromSliceLine

SpecSlice == InitSlice /\ [][NextSlice]_vars /\ WF_vars(NextSlice)

TypeOK ==
    /\ alphabet \in Alphabets
    /\ state \in {"Data", "Pad1", "Pad2"}
    /\ quad.used \in 0..4
    /\ alive \in BOOLEAN
    /\ op \in {"new", "update", "finish", "decode", "decode_into_vec"}
    /\ result.kind \in {"Ok", "OutputDoesNotFit", "InvalidInput", "Panic"}
    /\ clean \in BOOLEAN
    /\ fits \in BOOLEAN

(***************************************************************************)
(* Vocabulary of the properties                                            *)
(***************************************************************************)

(* the code the table of the decoder's alphabet gives to byte b *)
CodeOf(b) == decode_table(alphabet)[b + 1]

IsValue(b) == CodeOf(b) < 64

Called == op # "new"

LastCall == op \in {"finish", "decode", "decode_into_vec"}

OneShot == op \in {"decode", "decode_into_vec"}

(* index (from 1) of the first byte of s that satisfies P, 0 when none *)
FirstIndex(s, P(_)) ==
    IF \E i \in 1..Len(s) : P(s[i])
    THEN CHOOSE i \in 1..Len(s) : P(s[i]) /\ \A j \in 1..(i - 1) : ~P(s[j])
    ELSE 0

IsInvalid(b) == CodeOf(b) = INVALID

(***************************************************************************)
(* C1: a call whose input holds a byte the alphabet classifies as invalid  *)
(* fails: with InvalidInput at the offset of the first invalid byte, or    *)
(* earlier in the input for another reason (a symbol or pad after padding  *)
(* at a smaller offset, or OutputDoesNotFit for a triple completed before  *)
(* it).  An invalid byte is never accepted.                                *)
(***************************************************************************)
C1_InvalidByteRejected ==
    LET j == FirstIndex(input, IsInvalid)
    IN  (Called /\ j > 0) =>
          \/ result = InvalidInput(j - 1)
          \/ /\ result.kind = "InvalidInput"
             /\ result.val < j - 1
             /\ CodeOf(input[result.val + 1]) \notin {INVALID, SKIP}
          \/ result.kind = "OutputDoesNotFit"

(***************************************************************************)
(* C2: padding must be trailing.  In every call, with n pads processed      *)
(* before byte i (those of earlier calls, PadOf(state), plus those earlier  *)
(* in this input), the first byte that follows a processed pad and is not   *)
(* a skip or the second pad is rejected: if it is a valid-value symbol or a *)
(* third pad the call returns InvalidInput at its offset.  (A call that     *)
(* fails before it reaches the first pad of its input has processed no pad.)*)
(***************************************************************************)
PadsIn(s, n) == Cardinality({k \in 1..n : CodeOf(s[k]) = PAD})

(* index of the first byte of inp that comes after a pad and is neither a
   skip nor the second pad, 0 when there is none; before pads were processed
   before this call *)
FirstAfterPad(inp, before) ==
    LET Off(i) == /\ before + PadsIn(inp, i - 1) >= 1
                  /\ CodeOf(inp[i]) # SKIP
                  /\ ~(CodeOf(inp[i]) = PAD /\ before + PadsIn(inp, i - 1) = 1)
    IN  IF \E i \in 1..Len(inp) : Off(i)
        THEN CHOOSE i \in 1..Len(inp) : Off(i) /\ \A k \in 1..(i - 1) : ~Off(k)
        ELSE 0

C2_Step ==
    LET e == FirstAfterPad(input', PadOf(state))
    IN  (e > 0 /\ (IsValue(input'[e]) \/ CodeOf(input'[e]) = PAD)) =>
          \/ result' = InvalidInput(e - 1)
          \/ /\ PadOf(state) = 0
             /\ result'.kind \in {"OutputDoesNotFit", "InvalidInput"}
             /\ result'.kind = "InvalidInput" =>
                  result'.val < FirstIndex(input', LAMBDA b : CodeOf(b) = PAD) - 1

C2_PaddingTrailing == [][C2_Step]_vars

(* a pad accepted by one call, a symbol rejected at offset 0 by the next *)
C2_Witness ==
    /\ op \in {"update", "finish"}
    /\ Len(fed) = 2 /\ CodeOf(fed[1]) = PAD
    /\ Len(input) = 1 /\ IsValue(input[1])
    /\ result = InvalidInput(0)

(***************************************************************************)
(* C3: finish (and one-shot decode) always returns a value.  When the whole *)
(* stream is m valid-value symbols followed by p <= 2 pads (skips aside),   *)
(* n = m mod 4 values are left in the accumulator, and with enough output   *)
(* space the call returns Ok exactly when (n, p) is (0, 0), (2, 0), (3, 0)  *)
(* or n + p = 4, and InvalidInput otherwise: never a panic.                 *)
(***************************************************************************)
NonSkip(s) == SelectSeq(s, LAMBDA b : CodeOf(b) # SKIP)

ValueCount(s) == Cardinality({k \in 1..Len(s) : IsValue(s[k])})

(* s is, skips aside, valid-value symbols followed by at most two pads *)
ValuesThenPads(s) ==
    LET t == NonSkip(s)
        m == ValueCount(t)
    IN  /\ \A k \in 1..m : IsValue(t[k])
        /\ \A k \in (m + 1)..Len(t) : CodeOf(t[k]) = PAD
        /\ Len(t) - m <= 2

FinalAccepted(n, p) ==
    \/ n = 0 /\ p = 0
    \/ n \in {2, 3} /\ p = 0
    \/ n + p = 4

C3_Step ==
    LET s == fed'
        n == ValueCount(s) % 4
        p == PadsIn(s, Len(s))
    IN  (clean /\ LastCall' /\ ValuesThenPads(s) /\ result'.kind # "OutputDoesNotFit") =>
          result'.kind = (IF FinalAccepted(n, p) THEN "Ok" ELSE "InvalidInput")

C3_FinishTotal == [][C3_Step]_vars

(***************************************************************************)
(* C4: numeric semantics of a quad.  Whenever a decode whose stream is      *)
(* complete quads of valid-value symbols, the last one possibly completed   *)
(* by 1 or 2 pads, has succeeded, the bytes produced are, quad by quad for  *)
(* the 6-bit values (a, b, c, d): a*4 + b/16, (b mod 16)*16 + c/4,          *)
(* (c mod 4)*64 + d (each modulo 256); a quad completed by 1 pad gives the  *)
(* first two of them and a quad completed by 2 pads the first only.         *)
(***************************************************************************)
(* the 6-bit value a character stands for (RFC 4648 table 1) *)
ValueOfChar(b) == CHOOSE v \in 0..63 : EncodeChar(v) = b

RECURSIVE QuadBytes(_)
QuadBytes(v) ==
    IF Len(v) < 4 THEN << >>
    ELSE << (v[1] * 4 + v[2] \div 16) % 256,
            ((v[2] % 16) * 16 + v[3] \div 4) % 256,
            ((v[3] % 4) * 64 + v[4]) % 256 >> \o QuadBytes(Drop(v, 4))

ExpectedBytes(s) ==
    LET t == NonSkip(s)
        m == ValueCount(t)
        p == Len(t) - m
        v == [k \in 1..Len(t) |-> IF k <= m THEN ValueOfChar(t[k]) ELSE 0]
    IN  Take(QuadBytes(v), 3 * (Len(t) \div 4) - p)

ExplicitQuads(s) ==
    /\ ValuesThenPads(s)
    /\ Len(NonSkip(s)) % 4 = 0
    /\ PadsIn(s, Len(s)) > 0 => ValueCount(s) % 4 # 0

C4_QuadBytes ==
    (clean /\ LastCall /\ ExplicitQuads(fed)) => produced = ExpectedBytes(fed)

(* "/PD8" (values 63, 15, 3, 60) decoded to fc f0 fc, and "/P==" to fc *)
C4_Witness ==
    /\ op = "decode_into_vec"
    /\ \/ input = <<47, 80, 68, 56>> /\ output = <<252, 240, 252>>
       \/ input = <<47, 80, 61, 61>> /\ output = <<252>>

(***************************************************************************)
(* C5: round trip.  decode_into_vec with the strict alphabet applied to the *)
(* padded base64 encoding of a byte string p returns exactly p (so Len(p)   *)
(* bytes), for p of every length 0..MaxPayload.                             *)
(***************************************************************************)
EncodedPayloads == {<<Encode(p), p>> : p \in Payloads}

C5_RoundTrip ==
    (op = "decode_into_vec" /\ alphabet = "Standard") =>
        \A e \in EncodedPayloads :
            input = e[1] => (result = Ok(Len(e[2])) /\ output = e[2])

(* payloads of length 1, 2 and 4 came back *)
C5_Witness ==
    /\ op = "decode_into_vec" /\ alphabet = "Standard"
    /\ \/ input = Encode(<<105>>) /\ output = <<105>>
       \/ input = Encode(<<255, 0>>) /\ output = <<255, 0>>
       \/ input = Encode(<<166, 105, 0, 255>>) /\ output = <<166, 105, 0, 255>>

(***************************************************************************)
(* C6: explicit and implied padding are equivalent.  For an input of valid  *)
(* symbols (skips aside) that ends in a partial quad of 2 symbols, decoding *)
(* it followed by "==" gives the output of decoding it alone, whose last    *)
(* byte is the 1 byte of that quad; likewise for 3 symbols and "=" (2       *)
(* bytes); an input of full quads gives 3 bytes per quad.                   *)
(***************************************************************************)
ValuesOnly(s) == \A k \in 1..Len(s) : IsValue(s[k]) \/ CodeOf(s[k]) = SKIP

EndsWithPads(s, k) == Len(s) >= k /\ \A i \in (Len(s) - k + 1)..Len(s) : s[i] = 61

C6_PaddingEquivalence ==
    op = "decode_into_vec" =>
      /\ \A k \in {1, 2} :
           LET w == Take(input, Len(input) - k)
           IN  (EndsWithPads(input, k) /\ ValuesOnly(w) /\ ValueCount(w) % 4 = 4 - k) =>
                 /\ result.kind = "Ok"
                 /\ decode_into_vec(alphabet, w) = [res |-> result, out |-> output]
                 /\ Len(output) = 3 * (ValueCount(w) \div 4) + (3 - k)
      /\ (ValuesOnly(input) /\ ValueCount(input) % 4 = 0) =>
           result = Ok(3 * (ValueCount(input) \div 4))

(* "aa==" and "aaa=" decoded to the bytes that "aa" and "aaa" decode to *)
C6_Witness ==
    /\ op = "decode_into_vec"
    /\ \/ /\ input = <<97, 97, 61, 61>> /\ output = <<105>>
          /\ decode_into_vec(alphabet, <<97, 97>>).out = <<105>>
       \/ /\ input = <<97, 97, 97, 61>> /\ output = <<105, 166>>
          /\ decode_into_vec(alphabet, <<97, 97, 97>>).out = <<105, 166>>

(***************************************************************************)
(* C7: incremental decoding equals one-shot decoding.  When a sequence of   *)
(* calls (update ..., then finish), none of which ran out of output space,  *)
(* has ended, the concatenation of the outputs is the Vec decode_into_vec   *)
(* returns for the concatenation of the inputs, and decode_into_vec         *)
(* succeeds on it; and when a call of such a sequence fails, decode_into_vec*)
(* fails on the input fed so far however it is continued.                   *)
(***************************************************************************)
C7_Step ==
    (clean' /\ ~alive') =>
        decode_into_vec(alphabet, fed') = [res |-> Ok(Len(produced')), out |-> produced']

C7_Failed ==
    (fits /\ result.kind \notin Recoverable) =>
        \A ext \in (IF alive THEN Chunks \cup {<< >>} ELSE {<< >>}) :
            decode_into_vec(alphabet, fed \o ext).res.kind # "Ok"

C7_IncrementalEqualsOneShot == [][C7_Step]_vars /\ []C7_Failed

(* "aaa=" fed in several calls, finish called with empty input *)
C7_Witness ==
    /\ op = "finish" /\ clean /\ input = << >>
    /\ fed = <<97, 97, 97, 61>>
    /\ produced = <<105, 166>>

(***************************************************************************)
(* C8: output too small is reported, not truncated.  A call returns         *)
(* OutputDoesNotFit exactly when the bytes it has to emit (3 per completed  *)
(* quad, 3 - p for a final quad with p pads) exceed the output slice; then  *)
(* the slice holds the complete triples that fit before the failing one, as *)
(* a run with enough space writes them, and every byte after them is as the *)
(* caller left it.  For a well-formed input of v symbols that is 3 bytes    *)
(* per full quad plus 1 or 2 bytes for a final quad of 2 or 3 symbols.      *)
(***************************************************************************)
C8_Step ==
    LET cap  == Len(output')
        fill == CHOOSE f \in FillBytes : TRUE
        big  == Process(decode_table(alphabet), state, quad, input',
                        [i \in 1..(decode_len_estimate(Len(input')) + 3) |-> fill],
                        LastCall')
        m    == 3 * (cap \div 3)
        vals == ValueCount(input')
        need == 3 * (vals \div 4) + (IF vals % 4 = 0 THEN 0 ELSE (vals % 4) - 1)
    IN  op' \in {"update", "finish", "decode"} =>
          /\ result'.kind = "OutputDoesNotFit" <=> big.offs > cap
          /\ result'.kind = "OutputDoesNotFit" =>
               /\ Take(output', m) = Take(big.buf, m)
               /\ \A i \in (m + 1)..cap : output'[i] = fill
          /\ (op' = "decode" /\ ValuesThenPads(input')
                /\ FinalAccepted(vals % 4, PadsIn(input', Len(input')))) =>
               (result'.kind = "OutputDoesNotFit" <=> need > cap)

C8_OutputDoesNotFit == [][C8_Step]_vars

(* "aaaaaa" into 3 bytes: the first triple is written, the 1 byte of the
   final quad does not fit; and "aa" into 1 byte fits *)
C8_Witness ==
    /\ op = "decode"
    /\ \/ /\ input = <<97, 97, 97, 97, 97, 97>>
          /\ result = OutputDoesNotFit
          /\ output = <<105, 166, 154>>
       \/ /\ input = <<97, 97, 97, 97, 97, 97, 97, 97>>
          /\ result = OutputDoesNotFit
          /\ output = <<105, 166, 154>>

(***************************************************************************)
(* C9: decode_len_estimate is never an under-estimate.  A one-shot decode   *)
(* that succeeds writes at most decode_len_estimate(Len(input)) bytes;      *)
(* decode_into_vec never returns OutputDoesNotFit, and on success returns   *)
(* exactly the bytes the decode wrote.                                      *)
(***************************************************************************)
C9_EstimateSuffices ==
    /\ (OneShot /\ result.kind = "Ok") =>
          result.val <= ((Len(input) + 3) \div 4) * 3
    /\ op = "decode_into_vec" =>
          /\ result.kind # "OutputDoesNotFit"
          /\ result.kind = "Ok" =>
               /\ Len(output) = result.val
               /\ output = Take(decode(alphabet, input,
                                        [i \in 1..(Len(input) + 3) |-> 170]).buf,
                                 result.val)
    /\ (op = "decode" /\ result.kind = "OutputDoesNotFit") =>
          Len(output) < ((Len(input) + 3) \div 4) * 3

(* an input whose decode needs the whole estimate, and one with skips that
   needs less *)
C9_Witness ==
    /\ op = "decode_into_vec"
    /\ result.kind = "Ok"
    /\ \/ Len(input) = 4 /\ result.val = 3
       \/ Len(input) = 2 /\ result.val = 1

(***************************************************************************)
(* C10: the classification of every byte.  After update with the single    *)
(* byte b on a new decoder, what the decoder did with b is what the claim   *)
(* says for b: 'A'-'Z' -> 0..25, 'a'-'z' -> 26..51, '0'-'9' -> 52..61,      *)
(* '+' -> 62, '/' -> 63, '=' -> pad; 0x09..0x0d and 0x20 invalid under the  *)
(* strict table and skip under the tolerant one; every other byte invalid.  *)
(* The two tables differ on exactly those six bytes.                        *)
(***************************************************************************)
Whitespace == {9, 10, 11, 12, 13, 32}

ClaimedCode(a, b) ==
    IF b \in 65..90 THEN b - 65
    ELSE IF b \in 97..122 THEN b - 97 + 26
    ELSE IF b \in 48..57 THEN b - 48 + 52
    ELSE IF b = 43 THEN 62
    ELSE IF b = 47 THEN 63
    ELSE IF b = 61 THEN PAD
    ELSE IF b \in Whitespace /\ a = "Pem" THEN SKIP
    ELSE INVALID

(* the code the table gave, read off the decoder: the value stored in the
   quad, the phase change of a pad, or nothing for a skip *)
ObservedCode ==
    IF result.kind = "InvalidInput" THEN INVALID
    ELSE IF quad.used = 1 THEN quad.codes[1]
    ELSE IF state = "Pad1" THEN PAD
    ELSE SKIP

C10_Tables ==
    (op = "update" /\ Len(fed) = 1) =>
        LET b == input[1]
        IN  /\ ObservedCode = ClaimedCode(alphabet, b)
            /\ decode_table(alphabet)[b + 1] = ClaimedCode(alphabet, b)
            /\ (decode_table("Standard")[b + 1] # decode_table("Pem")[b + 1])
                   <=> b \in Whitespace

(* a vertical tab skipped by the tolerant table, and 'z' stored as 51 *)
C10_Witness ==
    /\ op = "update" /\ Len(fed) = 1
    /\ \/ alphabet = "Pem" /\ input = <<11>> /\ quad.used = 0 /\ state = "Data"
       \/ input = <<122>> /\ quad.used = 1 /\ quad.codes[1] = 51
(***************************************************************************)
(* C11: skip bytes are inert under the tolerant alphabet.  A call on a Pem  *)
(* decoder, in whatever state the earlier calls left it, ends with the      *)
(* accumulator, the phase, the output bytes and the kind of result that the *)
(* same call gives on its input with the skip bytes removed; a call whose   *)
(* input is skip bytes only changes neither accumulator nor phase; and      *)
(* decode_into_vec returns on an input what it returns on the input without *)
(* its skip bytes, failing exactly when that one fails.                     *)
(***************************************************************************)
StripSkips(s) == SelectSeq(s, LAMBDA b : CodeOf(b) # SKIP)

SameOutcome(r1, r2) ==
    /\ r1.kind = r2.kind
    /\ r1.kind = "Ok" => r1.val = r2.val

C11_Step ==
    (alphabet = "Pem" /\ op' \in {"update", "finish", "decode"}) =>
        LET bare == StripSkips(input')
            r == Process(decode_table(alphabet), state, quad, bare,
                         [i \in 1..Len(output') |-> 170], op' # "update")
        IN  /\ state' = r.state
            /\ quad' = r.quad
            /\ output' = r.buf
            /\ SameOutcome(result', r.res)
            /\ bare = << >> /\ op' = "update" =>
                   state' = state /\ quad' = quad /\ result' = Ok(0)

C11_OneShot ==
    (alphabet = "Pem" /\ op = "decode_into_vec") =>
        LET r == decode_into_vec(alphabet, StripSkips(input))
        IN  /\ SameOutcome(result, r.res)
            /\ output = r.out

C11_SkipBytesInert == [][C11_Step]_vars /\ []C11_OneShot

(* "a\naa\n=" decoded in one call to the two bytes of "aaa=", and a line
   feed fed between the two pads of "aa==" *)
C11_Witness ==
    /\ alphabet = "Pem"
    /\ \/ /\ op = "decode_into_vec" /\ input = <<97, 10, 97, 97, 61>>
          /\ result = Ok(2) /\ output = <<105, 166>>
       \/ /\ op = "update" /\ input = <<61, 10>> /\ state = "Pad1"
          /\ result = Ok(0) /\ quad.used = 2
(***************************************************************************)
(* C12: the dispatch table.  When a line closes the open section (it starts *)
(* with the section's end marker) and the section's body, the lines between *)
(* its BEGIN line and that line, is padded base64 text, the pull returns    *)
(* the item of the variant the table gives for the section's label, holding *)
(* exactly the bytes the body encodes; under a label that is not in the     *)
(* table, compared byte for byte, the pull returns nothing at that line.    *)
(***************************************************************************)
TableVariant(label) ==
    IF label = L_CERTIFICATE THEN "X509Certificate"
    ELSE IF label = L_PUBLIC_KEY THEN "SubjectPublicKeyInfo"
    ELSE IF label = L_RSA_PRIVATE_KEY THEN "Pkcs1Key"
    ELSE IF label = L_PRIVATE_KEY THEN "Pkcs8Key"
    ELSE IF label = L_EC_PRIVATE_KEY THEN "Sec1Key"
    ELSE IF label = L_X509_CRL THEN "Crl"
    ELSE IF label = L_CERTIFICATE_REQUEST THEN "Csr"
    ELSE "none"

(* this step reads the line that closes the open section *)
Closing ==
    /\ pc = "loop" /\ scan_section.open
    /\ scan_line'.some
    /\ ~StartsWith(scan_line'.line, BEGIN_PREFIX)
    /\ StartsWith(scan_line'.line, scan_section.end)

C12_Step ==
    (Closing /\ ExplicitQuads(own_body)) =>
        IF TableVariant(scan_section.ty) # "none"
        THEN /\ Len(outs') = Len(outs) + 1
             /\ outs'[Len(outs')] =
                    Item(TableVariant(scan_section.ty), ExpectedBytes(own_body))
        ELSE outs' = outs /\ pc' = "loop"

C12_Dispatch == [][C12_Step]_vars

(***************************************************************************)
(* C13: k sections give k items.  Over an input whose bytes are k           *)
(* well-formed sections with labels of the table (k up to MaxSections, with *)
(* LF, CR LF or CR line ends, the last line terminated or not), the pulls   *)
(* return the items of the sections in file order, each with the bytes its  *)
(* own body encodes, and then no-more-items: the results so far are always  *)
(* a prefix of that sequence, and the whole of it once the caller has       *)
(* stopped.  The pulls are those of read_one; and those of                  *)
(* read_one_from_slice when every line of the input ends with LF, which is  *)
(* what that surface takes for a line.                                      *)
(***************************************************************************)
WellFormedSections ==
    { <<L_CERTIFICATE, BodyAaa>>, <<L_CERTIFICATE, BodyZero>>, <<L_PRIVATE_KEY, BodyAaa>> }

ItemOf(p) == Item(TableVariant(p[1]), ExpectedBytes(p[2]))

(* the files made of sections of the set secs, each with the sections it is
   made of and its line ends *)
CasesOver(secs) ==
    { [file |-> Join(Flatten([i \in 1..Len(ps) |-> SectionOf(ps[i][1], ps[i][2])]), t, final),
       secs |-> ps, lf |-> (final /\ t[Len(t)] = 10)] :
        ps \in SeqsUpTo(secs, MaxSections),
        t \in Terminators, final \in BOOLEAN }

C13_Cases == CasesOver(WellFormedSections)

(* the surface is handed every line of the file of case c *)
LinesDelivered(c) ==
    \/ surface = "read_one"
    \/ surface = "read_one_from_slice" /\ c.lf

IsPrefix(s, t) == Len(s) <= Len(t) /\ s = SubSeq(t, 1, Len(s))

C13_Files == { c.file : c \in C13_Cases }

C13_SectionsInOrder ==
    file \in C13_Files =>
    \A c \in C13_Cases :
        (file = c.file /\ LinesDelivered(c)) =>
            LET items == [i \in 1..Len(c.secs) |-> ItemOf(c.secs[i])]
            IN  /\ IsPrefix(outs, items \o <<NoMoreItems>>)
                /\ pc = "end" => outs = items \o <<NoMoreItems>>

(* three CERTIFICATE sections with CR LF line ends, read to the end *)
C13_Witness ==
    /\ surface = "read_one" /\ pc = "end"
    /\ file = Join(Flatten(<<SectionOf(L_CERTIFICATE, BodyAaa), SectionOf(L_CERTIFICATE, BodyZero),
                             SectionOf(L_CERTIFICATE, BodyAaa)>>), <<13, 10>>, TRUE)
    /\ outs = << Item("X509Certificate", <<105, 166>>), Item("X509Certificate", <<0, 0, 0>>),
                 Item("X509Certificate", <<105, 166>>), NoMoreItems >>

(***************************************************************************)
(* C14: unrecognized sections are passed over.  Over an input of            *)
(* well-formed sections, some under labels of the table and some under      *)
(* another label, the pulls return the items of the sections under labels   *)
(* of the table, in file order, and then no-more-items; a section under     *)
(* another label adds no result of any kind, and the pull that meets it     *)
(* goes on to the lines after it.  The pulls are those of read_one; and     *)
(* those of read_one_from_slice when every line of the input ends with LF.  *)
(***************************************************************************)
C14_Cases == CasesOver(WellFormedSections \cup { <<L_FOO, BodyZero>> })

C14_Files == { c.file : c \in C14_Cases }

C14_UnrecognizedSkipped ==
    file \in C14_Files =>
    \A c \in C14_Cases :
        (file = c.file /\ LinesDelivered(c)) =>
            LET known == SelectSeq(c.secs, LAMBDA p : TableVariant(p[1]) # "none")
                items == [i \in 1..Len(known) |-> ItemOf(known[i])]
            IN  /\ IsPrefix(outs, items \o <<NoMoreItems>>)
                /\ pc = "end" => outs = items \o <<NoMoreItems>>

(* a FOO section, a CERTIFICATE section and a FOO section: the first pull
   passes over the first and returns the certificate, the second passes over
   the last and returns no-more-items *)
C14_Witness ==
    /\ surface = "read_one_from_slice" /\ pc = "end"
    /\ file = Join(Flatten(<<SectionOf(L_FOO, BodyZero), SectionOf(L_CERTIFICATE, BodyAaa),
                             SectionOf(L_FOO, BodyZero)>>), <<10>>, TRUE)
    /\ outs = << Item("X509Certificate", <<105, 166>>), NoMoreItems >>

(***************************************************************************)
(* C15: the end of the input inside a section.  When a pull finds no next   *)
(* line while a section is open, it returns the MissingSectionEnd error     *)
(* whose end_marker is "-----END ", the label of the open section and       *)
(* "-----"; read_one returns the io::Error it makes of that error.  Nothing *)
(* else is returned by that pull.  The label of the open section is what    *)
(* the BEGIN line that opened it has between "-----BEGIN " and its five     *)
(* closing hyphens, whenever that line, trimmed, ends with five hyphens.    *)
(***************************************************************************)
(* a line without its trailing CR, LF and space bytes *)
RECURSIVE TrimEnd(_)
TrimEnd(l) ==
    IF Len(l) > 0 /\ l[Len(l)] \in {10, 13, 32} THEN TrimEnd(Take(l, Len(l) - 1)) ELSE l

LabelOf(begin_line) == SubSeq(TrimEnd(begin_line), 12, Len(TrimEnd(begin_line)) - 5)

EndOfInput == pc = "loop" /\ ~scan_line'.some /\ pc' # "loop"

(* the trimmed line ends with five hyphens in a row *)
ClosedByDashes(begin_line) ==
    LET t == TrimEnd(begin_line)
    IN  Len(t) >= 16 /\ SubSeq(t, Len(t) - 4, Len(t)) = DASHES

C15_Step ==
    (EndOfInput /\ scan_section.open) =>
        LET e == MissingSectionEnd(END_PREFIX \o scan_section.ty \o DASHES)
        IN  /\ outs' = Append(outs, IF surface = "read_one" THEN IoError(e) ELSE e)
            /\ ClosedByDashes(open_line) => scan_section.ty = LabelOf(open_line)

C15_MissingSectionEnd == [][C15_Step]_vars

(* a FOO section begun, a body line, and the end of the slice *)
C15_Witness ==
    /\ surface = "read_one_from_slice" /\ pc = "end"
    /\ file = Join(<<BeginOf(L_FOO), BodyZero>>, <<10>>, TRUE)
    /\ outs = << MissingSectionEnd(EndOf(L_FOO)) >>

(***************************************************************************)
(* C16: lines outside sections are ignored.  Over an input none of whose    *)
(* lines begins with "-----BEGIN " (the empty input, lines of text, END     *)
(* lines with no section open) the first pull returns no-more-items, on     *)
(* every surface; and over an input of well-formed sections with such       *)
(* lines before, between and after them, the pulls return the items of the  *)
(* sections, as if those lines were not there, and then no-more-items (for  *)
(* read_one_from_slice when every line of the input ends with LF).          *)
(***************************************************************************)
(* no line of f, lines ending at LF or CR, begins with "-----BEGIN " *)
NoBeginLine(f) ==
    \A i \in 1..Len(f) :
        (i = 1 \/ f[i - 1] \in {10, 13}) => ~StartsWith(Drop(f, i - 1), BEGIN_PREFIX)

(* parts of a file: <<line>> is a line outside sections, <<label, lines>> a
   section with its body lines *)
C16_Parts ==
    { <<EndOf(L_CERTIFICATE)>>, <<BodyAaa>>,
      <<L_CERTIFICATE, << >>>>, <<L_CERTIFICATE, <<BodyAaa>>>> }

LinesOfPart(p) ==
    IF Len(p) = 1 THEN p ELSE <<BeginOf(p[1])>> \o p[2] \o <<EndOf(p[1])>>

C16_Cases ==
    { [file |-> Join(Flatten([i \in 1..Len(ps) |-> LinesOfPart(ps[i])]), t, final),
       parts |-> ps, lf |-> (final /\ t[Len(t)] = 10)] :
        ps \in SeqsUpTo(C16_Parts, MaxSections),
        t \in Terminators, final \in BOOLEAN }

C16_Files == { c.file : c \in C16_Cases }

C16_OutsideIgnored ==
    /\ (outs # << >> /\ NoBeginLine(file)) => outs = <<NoMoreItems>>
    /\ file \in C16_Files =>
       \A c \in C16_Cases :
          (file = c.file /\ LinesDelivered(c)) =>
              LET secs == SelectSeq(c.parts, LAMBDA p : Len(p) = 2)
                  items == [i \in 1..Len(secs) |->
                              Item(TableVariant(secs[i][1]), ExpectedBytes(Flatten(secs[i][2])))]
              IN  /\ IsPrefix(outs, items \o <<NoMoreItems>>)
                  /\ pc = "end" => outs = items \o <<NoMoreItems>>

(* a line of text before and after a CERTIFICATE section, CR line ends, the
   last line not terminated *)
C16_Witness ==
    /\ pc = "end" /\ surface = "read_one"
    /\ file = Join(<<BodyAaa>> \o SectionOf(L_CERTIFICATE, BodyAaa) \o <<BodyAaa>>, <<13>>, FALSE)
    /\ outs = << Item("X509Certificate", <<105, 166>>), NoMoreItems >>

(***************************************************************************)
(* C17: the BEGIN line.  A line that begins with "-----BEGIN " opens a      *)
(* section exactly when, without its trailing CR, LF and space bytes, it    *)
(* ends with a run of exactly five hyphens; the label recorded is then the  *)
(* text between "-----BEGIN " and those five hyphens, and the pull goes on. *)
(* Otherwise the pull fails with IllegalSectionStart carrying the line (in  *)
(* read_one, the io::Error made of it) and the line opens no section.       *)
(***************************************************************************)
RECURSIVE TrailingHyphens(_)
TrailingHyphens(l) ==
    IF Len(l) > 0 /\ l[Len(l)] = 45 THEN 1 + TrailingHyphens(Take(l, Len(l) - 1)) ELSE 0

C17_Step ==
    (pc \in {"idle", "loop"} /\ scan_line'.some /\ StartsWith(scan_line'.line, BEGIN_PREFIX)) =>
        LET l == scan_line'.line
            e == IllegalSectionStart(l)
        IN  IF TrailingHyphens(TrimEnd(l)) = 5
            THEN /\ pc' = "loop" /\ outs' = outs
                 /\ scan_section'.open /\ scan_section'.ty = LabelOf(l)
            ELSE /\ pc' # "loop"
                 /\ outs' = Append(outs, IF surface = "read_one" THEN IoError(e) ELSE e)
                 /\ scan_section' = IF pc = "idle" THEN NoSection ELSE scan_section

C17_BeginLine == [][C17_Step]_vars

(***************************************************************************)
(* C18: the two surfaces agree.  When the pulls of read_one over a reader   *)
(* have come to no-more-items, their results up to the first that is not an *)
(* item are those of read_one_from_slice called on the same bytes and then  *)
(* on each remainder it returns: the same items with the same payloads in   *)
(* the same order, then no-more-items on both sides or an error of the same *)
(* kind on both sides.                                                      *)
(***************************************************************************)
(* the results of read_one_from_slice on inp and on the remainders, up to the
   first that is not an item *)
RECURSIVE SliceResults(_)
SliceResults(inp) ==
    CHOOSE x \in
      { IF r.out.kind = "Item" THEN <<r.out>> \o SliceResults(r.inp) ELSE <<r.out>>
        : r \in {read_one_from_slice(inp)} } : TRUE

(* the results of a sequence of pulls up to the first that is not an item *)
UpToStop(os) ==
    IF \E i \in 1..Len(os) : os[i].kind # "Item"
    THEN Take(os, CHOOSE i \in 1..Len(os) :
                    os[i].kind # "Item" /\ \A j \in 1..(i - 1) : os[j].kind = "Item")
    ELSE os

(* a result of read_one and a result of read_one_from_slice are the same
   item, or both no-more-items, or errors of the same kind, or both panics *)
SameResult(streamed, sliced) ==
    IF sliced.kind \in {"Item", "None", "Panic"} THEN streamed = sliced
    ELSE streamed.kind = "io::Error" /\ streamed.tag = IoError(sliced).tag

C18_SurfacesAgree ==
    (surface = "read_one" /\ pc = "end") =>
        LET a == UpToStop(outs)
            b == SliceResults(file)
        IN  /\ Len(a) = Len(b)
            /\ \A i \in 1..Len(a) : SameResult(a[i], b[i])

(***************************************************************************)
(* C19: the remainder of read_one_from_slice.  When a call returns an item, *)
(* the input is as it was and the remainder is the suffix of the input that *)
(* starts right after the newline ending the END line of the returned       *)
(* section.  Over an input of well-formed sections with LF line ends, after *)
(* each returned item the remainder is the bytes of the sections not yet    *)
(* read, and the items returned so far are those of the sections read, in   *)
(* order, each once: the call on the remainder returns the next item.       *)
(***************************************************************************)
(* the line of input s that ends just before position k *)
RECURSIVE LineEndingAt(_, _)
LineEndingAt(s, k) ==
    IF k = 1 \/ s[k - 1] = 10 THEN << >>
    ELSE Append(LineEndingAt(s, k - 1), s[k - 1])

C19_Step ==
    (surface = "read_one_from_slice" /\ outs' # outs /\ outs'[Len(outs')].kind = "Item") =>
        LET k == Len(file) - Len(reader')
        IN  /\ file' = file
            /\ k > 0
            /\ file[k] = 10
            /\ reader' = Drop(file, k)
            /\ scan_section.open
            /\ StartsWith(LineEndingAt(file, k), scan_section.end)
            /\ \A i \in (Len(file) - Len(reader) + 1)..(k - 1) : file[i] # 10

(* the bytes of the sections secs with line end t after every line *)
SectionsFile(secs, t) ==
    Join(Flatten([i \in 1..Len(secs) |-> SectionOf(secs[i][1], secs[i][2])]), t, TRUE)

(* inputs of well-formed sections, under labels of the table and under
   another label, every line ending with LF or with CR LF *)
C19_Cases ==
    { [file |-> SectionsFile(ps, t), secs |-> ps, t |-> t] :
        ps \in SeqsUpTo(WellFormedSections \cup { <<L_FOO, BodyZero>> }, MaxSections),
        t \in { <<10>>, <<13, 10>> } }

C19_Files == { c.file : c \in C19_Cases }

C19_Between ==
    (file \in C19_Files /\ surface = "read_one_from_slice" /\ pc = "idle") =>
    \A c \in C19_Cases :
        (file = c.file /\ surface = "read_one_from_slice" /\ pc = "idle") =>
            \E j \in 0..Len(c.secs) :
                LET known == SelectSeq(SubSeq(c.secs, 1, j), LAMBDA p : TableVariant(p[1]) # "none")
                IN  /\ j > 0 => TableVariant(c.secs[j][1]) # "none"
                    /\ Len(outs) = Len(known)
                    /\ outs = [i \in 1..Len(known) |-> ItemOf(known[i])]
                    /\ reader = SectionsFile(SubSeq(c.secs, j + 1, Len(c.secs)), c.t)

RECURSIVE ReadOneResults(_, _)
ReadOneResults(rd, cap) ==
    CHOOSE x \in
      { IF r.out.kind \in {"None", "Panic"} THEN <<r.out>>
        ELSE <<r.out>> \o ReadOneResults(r.inp, cap)
        : r \in {read_one(rd, cap)} } : TRUE

(* the results that certs(rd) is to pass on *)
CertsOf(results) ==
    SelectSeq(results, LAMBDA o : o.kind = "Item" => o.tag = "X509Certificate")

C20_CertsFilter ==
    surface = "certs" =>
        \E expected \in { CertsOf(ReadOneResults(file, 4096)) } :
            /\ IsPrefix(outs, expected)
            /\ pc = "end" => outs = expected
            /\ (pc = "end" /\ \A i \in 1..Len(expected) : expected[i].kind \notin {"Item", "io::Error"})
                   => outs = <<NoMoreItems>>

(* a PRIVATE KEY section, a CERTIFICATE section and a FOO section that is
   never closed: the key is dropped, the certificate and the error are
   yielded, then the iteration ends *)
C20_Witness ==
    /\ surface = "certs" /\ pc = "end"
    /\ file = Join(SectionOf(L_PRIVATE_KEY, BodyAaa) \o SectionOf(L_CERTIFICATE, BodyAaa)
                     \o <<BeginOf(L_FOO), BodyZero>>, <<10>>, TRUE)
    /\ outs = << Item("X509Certificate", <<105, 166>>),
                 IoError(MissingSectionEnd(EndOf(L_FOO))), NoMoreItems >>

(***************************************************************************)
(* C21: the accumulator.  In every state of a decoder the quad holds at     *)
(* most 4 values, each of them a 6-bit value 0..63; after a call of update  *)
(* it holds at most 3, a full quad being emitted and reset at once; and the *)
(* pads that finish appends never go past the 4 slots, that is, Quad::add   *)
(* is never called on a full quad.                                          *)
(***************************************************************************)
C21_Accumulator ==
    /\ quad.used \in 0..4
    /\ \A i \in 1..Len(quad.codes) : quad.codes[i] \in 0..63
    /\ op = "update" => quad.used <= 3
    /\ result.kind # "Panic"

(***************************************************************************)
(* C22: the phase only advances.  Over the calls made on one decoder the    *)
(* state goes Data, Pad1, Pad2 and never back.  A call of update that       *)
(* starts after a pad changes neither the accumulator nor the bytes         *)
(* produced, and a call succeeds only if every byte of its input that comes *)
(* after a pad is a skip or the second pad: no value symbol that follows a  *)
(* pad is taken into the accumulator, so no output byte comes from one.     *)
(***************************************************************************)
Rank(st) == PadOf(st)

(* the bytes of inp from index i on are skips and pads only *)
OnlySkipsAndPads(inp, i) ==
    \A k \in i..Len(inp) : CodeOf(inp[k]) \in {SKIP, PAD}

C22_Step ==
    LET p == IF state # "Data" THEN 1
             ELSE FirstIndex(input', LAMBDA b : CodeOf(b) = PAD)
    IN  /\ Rank(state) <= Rank(state')
        /\ (state # "Data" /\ op' = "update") => (quad' = quad /\ produced' = produced)
        /\ (result'.kind = "Ok" /\ p > 0) => OnlySkipsAndPads(input', p)
        /\ (state' # "Data" /\ op' = "update" /\ p > 0) =>
              quad'.used = (quad.used + Cardinality({k \in 1..(p - 1) :
                                  CodeOf(input'[k]) # SKIP})) % 4 \/ result'.kind = "OutputDoesNotFit"

C22_PhaseForward == [][C22_Step]_vars

(* two values and a pad in one call, then the second pad in another: the
   accumulator still holds the two values *)
C22_Witness ==
    /\ op = "update" /\ state = "Pad2" /\ result.kind = "Ok"
    /\ Len(input) = 1 /\ CodeOf(input[1]) = PAD
    /\ Len(fed) = 4 /\ IsValue(fed[1]) /\ IsValue(fed[2]) /\ CodeOf(fed[3]) = PAD
    /\ quad.used = 2

(***************************************************************************)
(* C23: nothing leaks between sections.  When a line closes the open        *)
(* section, the text that is decoded is the lines read since that section's *)
(* own BEGIN line and nothing else; and while a pull scans with no section  *)
(* open, the body buffer is empty.                                          *)
(***************************************************************************)
C23_Step ==
    /\ Closing => scan_b64buf = own_body
    /\ (pc' = "loop" /\ ~scan_section'.open) => scan_b64buf' = << >>

C23_NoLeak == [][C23_Step]_vars

(***************************************************************************)
(* C24: an unrecognized section is skipped whatever its body holds.  When a *)
(* line closes an open section whose label is not in the table, the pull    *)
(* returns nothing at that line, neither an item nor a Base64Decode error,  *)
(* and goes on scanning with the lines that follow.                         *)
(***************************************************************************)
C24_Step ==
    (Closing /\ TableVariant(scan_section.ty) = "none") =>
        /\ outs' = outs
        /\ pc' = "loop"
        /\ ~scan_section'.open

C24_UnrecognizedBody == [][C24_Step]_vars

(***************************************************************************)
(* C25: errors are terminal.  Once a pull on a reader (read_one called      *)
(* again and again, as read_all does, or the elements of certs) has         *)
(* returned an error, no later pull on that reader returns an item.         *)
(***************************************************************************)
C25_ErrorsTerminal ==
    surface \in {"read_one", "certs"} =>
        \A i \in 1..Len(outs) : \A j \in (i + 1)..Len(outs) :
            outs[i].kind = "io::Error" => outs[j].kind # "Item"

(***************************************************************************)
(* C26: OutputDoesNotFit is recoverable.  When a call of update has failed  *)
(* with OutputDoesNotFit, the same call repeated on the decoder with the    *)
(* same input and an output buffer that is large enough returns what the    *)
(* call would have returned, and leaves the decoder as it would have been,  *)
(* had the buffer been large enough in the first place: the same bytes, the *)
(* same pending values, no completed quad lost.  Likewise for decode, which *)
(* is repeated on a new decoder.                                            *)
(***************************************************************************)
(* an output buffer large enough for inp and the values pending before it *)
LargeBuffer(inp) == [i \in 1..decode_len_estimate(Len(inp) + 4) |-> 0]

(* two runs of process gave the same result, bytes and decoder *)
SameRun(r1, r2) ==
    /\ r1.res = r2.res
    /\ r1.res.kind = "Ok" => Take(r1.buf, r1.res.val) = Take(r2.buf, r2.res.val)
    /\ r1.state = r2.state
    /\ r1.quad.used = r2.quad.used
    /\ Take(r1.quad.codes, r1.quad.used) = Take(r2.quad.codes, r2.quad.used)

C26_Step ==
    (result'.kind = "OutputDoesNotFit" /\ op' \in {"update", "decode"}) =>
        LET table == decode_table(alphabet)
            last  == op' = "decode"
            again == IF last THEN decode(alphabet, input', LargeBuffer(input'))
                     ELSE Process(table, state', quad', input', LargeBuffer(input'), FALSE)
            never == Process(table, state, quad, input', LargeBuffer(input'), last)
        IN  /\ again.res.kind # "OutputDoesNotFit"
            /\ SameRun(again, never)

C26_Recoverable == [][C26_Step]_vars

(***************************************************************************)
(* C27: body lines are trimmed.  While a section is open, a line that is    *)
(* neither a BEGIN line nor the section's END line is appended to the body  *)
(* buffer without its trailing CR, LF and space bytes, on both surfaces; so *)
(* the buffer never holds a CR or LF byte.                                  *)
(***************************************************************************)
(* this step reads a body line of the open section *)
BodyLine ==
    /\ pc = "loop" /\ scan_section.open
    /\ scan_line'.some
    /\ ~StartsWith(scan_line'.line, BEGIN_PREFIX)
    /\ ~StartsWith(scan_line'.line, scan_section.end)

C27_Step ==
    BodyLine =>
        /\ scan_b64buf' = scan_b64buf \o TrimEnd(scan_line'.line)
        /\ \A i \in 1..Len(scan_b64buf') : scan_b64buf'[i] \notin {10, 13}

C27_BodyTrimmed == [][C27_Step]_vars

(***************************************************************************)
(* C28: where read_one leaves the reader.  When a pull of read_one returns  *)
(* an item, the reader has given up exactly the bytes up to and including   *)
(* the first CR or LF after the END marker (all the bytes left, when none   *)
(* follows the marker) and no byte beyond: what is left to read is the rest *)
(* of the input, every byte of it.                                          *)
(***************************************************************************)
C28_Step ==
    (surface = "read_one" /\ outs' # outs /\ outs'[Len(outs')].kind = "Item") =>
        LET from == Len(file) - Len(reader)
            to   == Len(file) - Len(reader')
            consumed == SubSeq(file, from + 1, to)
        IN  /\ file' = file
            /\ reader = Drop(file, from)
            /\ reader' = Drop(file, to)
            /\ scan_section.open
            /\ StartsWith(consumed, scan_section.end)
            /\ \A i \in 1..(Len(consumed) - 1) : consumed[i] \notin {10, 13}
            /\ consumed[Len(consumed)] \in {10, 13} \/ to = Len(file)

C28_ReaderPosition == [][C28_Step]_vars

(* three CERTIFICATE sections with CR LF line ends: after the first item the
   reader is at the LF of the first END line, the next sections untouched *)
C28_Witness ==
    /\ surface = "read_one" /\ pc = "idle"
    /\ file = SectionsFile(<< <<L_CERTIFICATE, BodyAaa>>, <<L_CERTIFICATE, BodyZero>>,
                              <<L_CERTIFICATE, BodyAaa>> >>, <<13, 10>>)
    /\ outs = << Item("X509Certificate", <<105, 166>>) >>
    /\ reader = <<10>> \o SectionsFile(<< <<L_CERTIFICATE, BodyZero>>,
                                          <<L_CERTIFICATE, BodyAaa>> >>, <<13, 10>>)

(***************************************************************************)
(* C29: the label slice is always in range.  For every line that begins     *)
(* with "-----BEGIN ", whatever follows the prefix, the index pos where the *)
(* closing hyphens start is at least 11 and at most the length of the line, *)
(* so line[11..pos] exists; the pull either opens a section with that label *)
(* or fails with IllegalSectionStart, and never panics.                     *)
(***************************************************************************)
C29_Step ==
    (pc \in {"idle", "loop"} /\ scan_line'.some /\ StartsWith(scan_line'.line, BEGIN_PREFIX)) =>
        LET l == scan_line'.line
            t == TrailerScan(l, Len(l), 0, Len(l))
            e == IllegalSectionStart(l)
        IN  /\ t.pos >= 11
            /\ t.pos <= Len(l)
            /\ \/ /\ pc' = "loop" /\ outs' = outs
                  /\ scan_section'.open /\ scan_section'.ty = SubSeq(l, 12, t.pos)
               \/ /\ pc' # "loop"
                  /\ outs' = Append(outs, IF surface = "read_one" THEN IoError(e) ELSE e)

C29_LabelInRange == [][C29_Step]_vars

(* the line "-----BEGIN " and nothing else: IllegalSectionStart *)
C29_Witness ==
    /\ surface = "read_one_from_slice"
    /\ scan_line = SomeLine(BEGIN_PREFIX)
    /\ outs = << IllegalSectionStart(BEGIN_PREFIX) >>

(***************************************************************************)
(* C30: read_one_from_slice terminates.  Every turn of its loop either      *)
(* takes a line off the front of what is left of the input, which gets      *)
(* strictly shorter, or finds no line and returns; a call that returns an   *)
(* item returns a remainder strictly shorter than the input it was given;   *)
(* and the calls made on the remainders come to no-more-items or to an      *)
(* error.                                                                   *)
(***************************************************************************)
C30_Step ==
    surface = "read_one_from_slice" =>
        /\ scan_line'.some => Len(reader') < Len(reader)
        /\ ~scan_line'.some => (reader' = reader /\ pc' = "end")
        /\ \E k \in 0..Len(file) : reader' = Drop(file, k)
        /\ (outs' # outs /\ outs'[Len(outs')].kind = "Item") =>
              /\ Len(reader') < Len(reader)
              /\ pc' = "idle"

C30_Ends ==
    surface = "read_one_from_slice" =>
        <>(/\ pc = "end"
           /\ outs[Len(outs)].kind \in
                 {"None", "MissingSectionEnd", "IllegalSectionStart", "Base64Decode"}
           /\ \A i \in 1..(Len(outs) - 1) : outs[i].kind = "Item")

C30_Terminates == [][C30_Step]_vars /\ C30_Ends

(* three sections read by three calls, and a fourth call that returns
   no-more-items on the empty remainder *)
C30_Witness ==
    /\ surface = "read_one_from_slice" /\ pc = "end"
    /\ file = SectionsFile(<< <<L_CERTIFICATE, BodyAaa>>, <<L_PRIVATE_KEY, BodyAaa>>,
                              <<L_CERTIFICATE, BodyZero>> >>, <<10>>)
    /\ Len(outs) = 4 /\ outs[4] = NoMoreItems
    /\ reader = << >>

====
